---- MODULE Spec2Model ----
(***************************************************************************)
(* A model of rilox, a tree-walking interpreter for Lox written in Rust.   *)
(*                                                                         *)
(* The heap of the interpreter (Rc<Environment>, Rc<Callable>, Rc<Class>,  *)
(* Rc<InstanceValue>) is modelled as four sequences indexed by object      *)
(* identity: an Rc clone is a copy of the index, a deep clone (the         *)
(* hand-written Clone impls) allocates a new index.  The evaluators of     *)
(* expr.rs and stmt.rs are recursive operators that thread this heap.      *)
(*                                                                         *)
(* Two specifications are given:                                           *)
(*   SpecEnv  drives the Environment API (new_child, define, get, assign)  *)
(*            over arbitrary scope chains;                                 *)
(*   Spec     drives Interpreter::interpret over programs built, one       *)
(*            top-level statement at a time, from a pool of statements.    *)
(***************************************************************************)
EXTENDS Integers, Sequences, FiniteSets, TLC

VARIABLES envs, calls, classes, insts, log, status, err, prog, suite, last

vars == <<envs, calls, classes, insts, log, status, err, prog, suite, last>>

(***************************************************************************)
(* Bounds of the model.                                                    *)
(***************************************************************************)
\* SpecEnv: number of environments on the heap.
MaxEnvs == 3
\* Spec: number of top-level statements of a program.
MaxSteps == 5
\* Spec: number of calls and loop iterations one top-level statement may take.
MaxFuel == 6

(***************************************************************************)
(* loxvalue.rs: LoxValue.  One record shape for every variant: tag is the  *)
(* variant, n the number / boolean (0, 1) / object identity, s the string, *)
(* wrap the number of Return(Box<..>) layers around the value.             *)
(***************************************************************************)
Nil == [tag |-> "Nil", n |-> 0, s |-> "", wrap |-> 0]

Bool(b) == [tag |-> "Bool", n |-> IF b THEN 1 ELSE 0, s |-> "", wrap |-> 0]

Number(i) == [tag |-> "Number", n |-> i, s |-> "", wrap |-> 0]

Str(t) == [tag |-> "String", n |-> 0, s |-> t, wrap |-> 0]

CallableV(c) == [tag |-> "Callable", n |-> c, s |-> "", wrap |-> 0]

ClassV(k) == [tag |-> "Class", n |-> k, s |-> "", wrap |-> 0]

InstanceV(i) == [tag |-> "Instance", n |-> i, s |-> "", wrap |-> 0]

\* LoxValue::Return(Box::new(v))
Return(v) == [v EXCEPT !.wrap = @ + 1]

\* the variant a Rust `match` sees
Tag(v) == IF v.wrap > 0 THEN "Return" ELSE v.tag

\* *value of a LoxValue::Return(value)
Unbox(v) == [v EXCEPT !.wrap = @ - 1]

\* Result<LoxValue, (String, Token)>
Ok(v) == [ok |-> TRUE, val |-> v, msg |-> ""]

Err(m) == [ok |-> FALSE, val |-> Nil, msg |-> m]

(***************************************************************************)
(* environment.rs                                                          *)
(***************************************************************************)
EmptyMap == [x \in {} |-> Nil]

\* Environment::new
Environment_new == [enclosing |-> 0, values |-> EmptyMap]

\* Environment::new_child
Environment_new_child(p) == [enclosing |-> p, values |-> EmptyMap]

\* impl Clone for Environment: the map is copied, the parent is shared
Environment_clone(es, e) == [enclosing |-> es[e].enclosing, values |-> es[e].values]

\* Environment::define
Environment_define(es, e, key, value) == [es EXCEPT ![e].values = (key :> value) @@ @]

UndefinedVariable(name) == "Undefined variable '" \o name \o "'."

RECURSIVE Environment_get_outermost(_, _, _)
\* a lookup that prefers the enclosing scope
Environment_get_outermost(es, e, name) ==
    LET up == IF es[e].enclosing = 0
              THEN Err(UndefinedVariable(name))
              ELSE Environment_get_outermost(es, es[e].enclosing, name)
    IN IF up.ok THEN up
       ELSE IF name \in DOMAIN es[e].values
            THEN Ok(es[e].values[name])
            ELSE up

RECURSIVE Environment_get(_, _, _)
\* Environment::get
Environment_get(es, e, name) ==
    IF name \in DOMAIN es[e].values
    THEN Ok(es[e].values[name])
    ELSE IF es[e].enclosing = 0
         THEN Err(UndefinedVariable(name))
         ELSE Environment_get(es, es[e].enclosing, name)

RECURSIVE Environment_get_by_string(_, _, _)
\* Environment::get_by_string
Environment_get_by_string(es, e, name) ==
    IF name \in DOMAIN es[e].values
    THEN Ok(es[e].values[name])
    ELSE IF es[e].enclosing = 0
         THEN Err(UndefinedVariable(name))
         ELSE Environment_get_by_string(es, es[e].enclosing, name)

\* an assignment that declares the name in the current scope when it is missing
Environment_assign_declaring(es, e, name, value) ==
    [es |-> [es EXCEPT ![e].values = (name :> value) @@ @], r |-> Ok(Nil)]

RECURSIVE Environment_assign(_, _, _, _)
\* Environment::assign; yields the heap after the call and its result
Environment_assign(es, e, name, value) ==
    IF name \in DOMAIN es[e].values
    THEN [es |-> [es EXCEPT ![e].values = (name :> value) @@ @], r |-> Ok(Nil)]
    ELSE IF es[e].enclosing = 0
         THEN [es |-> es, r |-> Err(UndefinedVariable(name))]
         ELSE Environment_assign(es, es[e].enclosing, name, value)

(***************************************************************************)
(* SpecEnv: the Environment API driven over arbitrary scope chains.        *)
(***************************************************************************)
EnvNames == {"a", "b"}

\* define binds DefVal, assign writes AsgVal: the walk never inspects a value
DefVals == {Number(1)}

AsgVals == {Number(2)}

NoOpRec == [op |-> "none", env |-> 0, name |-> "", val |-> Nil, res |-> Ok(Nil)]

InitEnv ==
    /\ envs = <<Environment_new>>
    /\ calls = <<>>
    /\ classes = <<>>
    /\ insts = <<>>
    /\ log = <<>>
    /\ status = "running"
    /\ err = ""
    /\ prog = <<>>
    /\ suite = 0
    /\ last = NoOpRec

NewChildOp(p) ==
    /\ Len(envs) < MaxEnvs
    /\ envs' = Append(envs, Environment_new_child(p))
    /\ last' = [op |-> "new_child", env |-> Len(envs) + 1, name |-> "",
                val |-> Nil, res |-> Ok(Nil)]
    /\ UNCHANGED <<calls, classes, insts, log, status, err, prog, suite>>

DefineOp(e, k, v) ==
    /\ envs' = Environment_define(envs, e, k, v)
    /\ last' = [op |-> "define", env |-> e, name |-> k, val |-> v, res |-> Ok(Nil)]
    /\ UNCHANGED <<calls, classes, insts, log, status, err, prog, suite>>

GetOp(e, k) ==
    /\ last' = [op |-> "get", env |-> e, name |-> k, val |-> Nil,
                res |-> Environment_get(envs, e, k)]
    /\ UNCHANGED <<envs, calls, classes, insts, log, status, err, prog, suite>>

AssignOp(e, k, v) ==
    /\ LET a == Environment_assign(envs, e, k, v)
       IN /\ envs' = a.es
          /\ last' = [op |-> "assign", env |-> e, name |-> k, val |-> v, res |-> a.r]
    /\ UNCHANGED <<calls, classes, insts, log, status, err, prog, suite>>

NextEnv ==
    \/ \E p \in 1..Len(envs) : NewChildOp(p)
    \/ \E e \in 1..Len(envs), k \in EnvNames, v \in DefVals : DefineOp(e, k, v)
    \/ \E e \in 1..Len(envs), k \in EnvNames : GetOp(e, k)
    \/ \E e \in 1..Len(envs), k \in EnvNames, v \in AsgVals : AssignOp(e, k, v)

SpecEnv == InitEnv /\ [][NextEnv]_vars

(***************************************************************************)
(* Scope chains, stated independently of the walk of get and assign: an    *)
(* environment is allocated after its parent, so along a chain identities  *)
(* decrease outwards and the innermost binder of a name is the greatest    *)
(* identity of the chain that binds it.                                    *)
(***************************************************************************)
ChainOf(es, e) ==
    LET anc[i \in 1..Len(es)] ==
            {i} \cup (IF es[i].enclosing = 0 THEN {} ELSE anc[es[i].enclosing])
    IN anc[e]

Binders(es, e, name) == {i \in ChainOf(es, e) : name \in DOMAIN es[i].values}

Innermost(S) == CHOOSE i \in S : \A j \in S : j <= i

\* C1: Environment.get(name) returns the value bound to name in the innermost
\* scope of the chain that binds it, and the error "Undefined variable
\* 'name'." exactly when no scope of the chain binds it.
C1_GetInnermost ==
    last.op = "get" =>
        LET B == Binders(envs, last.env, last.name)
        IN /\ (B = {}) <=> ~last.res.ok
           /\ B = {} => last.res.msg = "Undefined variable '" \o last.name \o "'."
           /\ B # {} => last.res.val = envs[Innermost(B)].values[last.name]

\* a lookup that starts two scopes below a shadowed binding of the name
C1_Witness ==
    /\ last.op = "get"
    /\ last.res.ok
    /\ Cardinality(Binders(envs, last.env, last.name)) >= 2
    /\ \E i \in Binders(envs, last.env, last.name) :
           envs[i].values[last.name] # last.res.val

\* C2: Environment.assign(name, v) replaces the value of name in the innermost
\* scope that already binds it and changes no other binding in any scope; when
\* no scope binds name it returns an error and leaves every scope unchanged.
C2_AssignInnermost ==
    [][last'.op = "assign" =>
        LET B == Binders(envs, last'.env, last'.name)
        IN /\ Len(envs') = Len(envs)
           /\ (B = {}) <=> ~last'.res.ok
           /\ B = {} => envs' = envs
           /\ B # {} =>
                \A i \in 1..Len(envs) :
                    /\ envs'[i].enclosing = envs[i].enclosing
                    /\ DOMAIN envs'[i].values = DOMAIN envs[i].values
                    /\ \A k \in DOMAIN envs[i].values :
                          envs'[i].values[k] =
                              IF i = Innermost(B) /\ k = last'.name
                              THEN last'.val
                              ELSE envs[i].values[k]]_vars

\* an assignment that skipped a scope without the name and replaced a binding
\* that itself shadows an outer binding of the name
C2_Witness ==
    /\ last.op = "assign"
    /\ last.res.ok
    /\ last.name \notin DOMAIN envs[last.env].values
    /\ Cardinality(Binders(envs, last.env, last.name)) >= 2
    /\ envs[Innermost(Binders(envs, last.env, last.name))].values[last.name] = last.val
    /\ \E i \in Binders(envs, last.env, last.name) :
           envs[i].values[last.name] # last.val

\* an assignment to a name that no scope binds
C2_WitnessUndefined ==
    /\ last.op = "assign"
    /\ ~last.res.ok
    /\ Len(envs) >= 2

(***************************************************************************)
(* The syntax trees of expr.rs and stmt.rs.  A node is a record whose k    *)
(* field names the struct; a function declaration is an index into Funs.   *)
(***************************************************************************)
Literal(v) == [k |-> "Literal", value |-> v]

Variable(name) == [k |-> "Variable", name |-> name]

Assign(name, value) == [k |-> "Assign", name |-> name, value |-> value]

Binary(left, op, right) == [k |-> "Binary", left |-> left, op |-> op, right |-> right]

Unary(op, right) == [k |-> "Unary", op |-> op, right |-> right]

Logical(left, op, right) == [k |-> "Logical", left |-> left, op |-> op, right |-> right]

Call(callee, arguments) == [k |-> "Call", callee |-> callee, arguments |-> arguments]

Get(object, name) == [k |-> "Get", object |-> object, name |-> name]

Set(object, name, value) == [k |-> "Set", object |-> object, name |-> name, value |-> value]

This == [k |-> "This"]

Grouping(expression) == [k |-> "Grouping", expression |-> expression]

NoOp == [k |-> "NoOp"]

Expression(expression) == [k |-> "Expression", expression |-> expression]

PrintStmt(expression) == [k |-> "Print", expression |-> expression]

Var(name, initializer) == [k |-> "Var", name |-> name, initializer |-> initializer]

Block(statements) == [k |-> "Block", statements |-> statements]

If(condition, then_branch) ==
    [k |-> "If", condition |-> condition, then_branch |-> then_branch,
     has_else |-> FALSE, else_branch |-> [k |-> "None"]]

IfElse(condition, then_branch, else_branch) ==
    [k |-> "If", condition |-> condition, then_branch |-> then_branch,
     has_else |-> TRUE, else_branch |-> else_branch]

While(condition, body) == [k |-> "While", condition |-> condition, body |-> body]

Function(f) == [k |-> "Function", f |-> f]

ReturnStmt(value) == [k |-> "ReturnStmt", value |-> value]

ClassStmt(name, methods) == [k |-> "ClassStmt", name |-> name, methods |-> methods]

\* class name < superclass { methods }
ClassStmtSub(name, superclass, methods) ==
    [k |-> "ClassStmt", name |-> name, methods |-> methods, superclass |-> superclass]

(***************************************************************************)
(* The heap threaded through an evaluation, and its event log.  The log    *)
(* and depth are history: they record what the evaluators did.             *)
(***************************************************************************)
Ev(e, d, c, v, t) == [e |-> e, d |-> d, c |-> c, v |-> v, t |-> t]

R(st, r) == [st |-> st, r |-> r]

Log(st, ev) == [st EXCEPT !.log = Append(@, ev)]

\* a Result built in place: an "error" event records where an Err is raised
Raised(st, r) ==
    IF r.ok THEN R(st, r) ELSE R(Log(st, Ev("error", st.depth, 0, Nil, r.msg)), r)

\* the text of the error a result carries ("" for Ok)
ErrText(r) == IF r.ok THEN "" ELSE r.msg

OutOfFuel == "#fuel"

(***************************************************************************)
(* expr.rs and loxvalue.rs: the pure helpers of the evaluators.            *)
(***************************************************************************)
\* expr.rs is_truthy: `invert` only negates a Bool
is_truthy(val, invert) ==
    IF Tag(val) = "Bool"
    THEN IF invert THEN Bool(val.n = 0) ELSE val
    ELSE IF Tag(val) = "Nil" THEN Bool(FALSE) ELSE Bool(TRUE)

\* impl PartialEq for LoxValue
LoxValue_eq(a, b) ==
    IF Tag(a) = "String" /\ Tag(b) = "String" THEN a.s = b.s
    ELSE IF Tag(a) = "Number" /\ Tag(b) = "Number" THEN a.n = b.n
    ELSE IF Tag(a) = "Nil" /\ Tag(b) = "Nil" THEN TRUE
    ELSE IF Tag(a) = "Bool" /\ Tag(b) = "Bool" THEN a.n = b.n
    ELSE IF Tag(a) = "Callable" /\ Tag(b) = "Callable" THEN a.n = b.n
    ELSE FALSE

\* expr.rs is_equal
is_equal(val1, val2, invert) ==
    IF invert THEN Bool(~LoxValue_eq(val1, val2)) ELSE Bool(LoxValue_eq(val1, val2))

BothNumbers(l, r) == Tag(l) = "Number" /\ Tag(r) = "Number"

\* the operator match of Binary::evaluate (numbers are modelled as integers,
\* so Slash, whose result need not be integral, is left out of the syntax)
Binary_operator(op, l, r) ==
    IF op = "BangEqual" THEN Ok(is_equal(l, r, TRUE))
    ELSE IF op = "EqualEqual" THEN Ok(is_equal(l, r, FALSE))
    ELSE IF op = "Greater"
         THEN IF BothNumbers(l, r) THEN Ok(Bool(l.n > r.n))
              ELSE Err("Can only compare two numbers.")
    ELSE IF op = "GreaterEqual"
         THEN IF BothNumbers(l, r) THEN Ok(Bool(l.n >= r.n))
              ELSE Err("Can only compare two numbers.")
    ELSE IF op = "Less"
         THEN IF BothNumbers(l, r) THEN Ok(Bool(l.n < r.n))
              ELSE Err("Can only compare two numbers.")
    ELSE IF op = "LessEqual"
         THEN IF BothNumbers(l, r) THEN Ok(Bool(l.n <= r.n))
              ELSE Err("Can only compare two numbers.")
    ELSE IF op = "Minus"
         THEN IF BothNumbers(l, r) THEN Ok(Number(l.n - r.n))
              ELSE Err("Can only subtract two numbers.")
    ELSE IF op = "Plus"
         THEN IF BothNumbers(l, r) THEN Ok(Number(l.n + r.n))
              ELSE IF Tag(l) = "String" /\ Tag(r) = "String" THEN Ok(Str(l.s \o r.s))
              ELSE Err("Can only add two numbers or concatenate two strings.")
    ELSE IF op = "Star"
         THEN IF BothNumbers(l, r) THEN Ok(Number(l.n * r.n))
              ELSE Err("Can only multiply two numbers.")
    ELSE Err("Unknown binary operation.")

\* the operator match of Unary::evaluate
Unary_operator(op, right) ==
    IF op = "Minus"
    THEN IF Tag(right) = "Number" THEN Ok(Number(0 - right.n))
         ELSE Err("Only know numbers to minus!")
    ELSE IF op = "Bang" THEN Ok(is_truthy(right, TRUE))
    ELSE Err("Unknown unary operation")

RECURSIVE Display(_, _)
\* impl fmt::Display for LoxValue
Display(st, v) ==
    IF Tag(v) = "Return" THEN "<return " \o Display(st, Unbox(v)) \o ">"
    ELSE IF Tag(v) = "String" THEN "\"" \o v.s \o "\""
    ELSE IF Tag(v) = "Number" THEN ToString(v.n)
    ELSE IF Tag(v) = "Bool" THEN (IF v.n = 1 THEN "true" ELSE "false")
    ELSE IF Tag(v) = "Nil" THEN "nil"
    ELSE IF Tag(v) = "Callable" THEN st.calls[v.n].string
    ELSE IF Tag(v) = "Class" THEN st.classes[v.n].name
    ELSE st.classes[st.insts[v.n].class].name \o " instance"

RECURSIVE Class_find_method(_, _, _)
\* Class::find_method: the callable's identity, 0 for None
Class_find_method(cls, k, name) ==
    IF name \notin DOMAIN cls[k].methods
    THEN IF cls[k].super_class = 0 THEN 0
         ELSE Class_find_method(cls, cls[k].super_class, name)
    ELSE IF Tag(cls[k].methods[name]) = "Callable" THEN cls[k].methods[name].n
         ELSE 0

\* Callable::bind: `this` is defined in the callable's own closure environment
Callable_bind(st, c, instance) ==
    [st EXCEPT !.envs = Environment_define(@, st.calls[c].environment, "this", instance)]

\* Callable::set_initializer
Callable_set_initializer(st, c) == [st EXCEPT !.calls[c].is_initializer = TRUE]

\* impl Clone for Callable: a new callable whose environment is a copy
Callable_clone(st, c) ==
    [st EXCEPT !.envs = Append(@, Environment_clone(st.envs, st.calls[c].environment)),
               !.calls = Append(@, [st.calls[c] EXCEPT !.environment = Len(st.envs) + 1])]

\* the message of the arity check in Call::evaluate
ExpectedArguments(n, m) ==
    "Expected " \o ToString(n) \o " arguments but got " \o ToString(m) \o "."

\* the message of the arity check in Callable::call
ExpectedArgumentS(n, m) ==
    "Expected " \o ToString(n) \o " argument(s) but got " \o ToString(m) \o "."

\* InstanceValue::set_value
InstanceValue_set_value(st, i, name, value) ==
    [st EXCEPT !.insts[i].fields = (name :> value) @@ @]

\* InstanceValue::get_value: methods are searched before fields; a method is
\* bound (in place, the Rc is shared) to a copy of the instance
InstanceValue_get_value(st, i, name) ==
    LET m == Class_find_method(st.classes, st.insts[i].class, name)
    IN IF m # 0
       THEN LET s1 == [st EXCEPT !.insts = Append(@, st.insts[i])]
            IN R(Callable_bind(s1, m, InstanceV(Len(st.insts) + 1)), Ok(CallableV(m)))
       ELSE IF name \in DOMAIN st.insts[i].fields
            THEN R(st, Ok(st.insts[i].fields[name]))
            ELSE Raised(st, Err("Undefined property '" \o name \o "'."))

(***************************************************************************)
(* The programs.  Funs holds every function declaration (stmt.rs Function: *)
(* name, params, body); a Function statement names one by its index.       *)
(***************************************************************************)
Num(i) == Literal(Number(i))

StrLit(t) == Literal(Str(t))

CallStmt(name, arguments) == Expression(Call(Variable(name), arguments))

PrintCall(name, arguments) == PrintStmt(Call(Variable(name), arguments))

Funs == <<
    \* 1: fun mk() { var i = 0; fun inc() { i = i + 1; return i; } return inc; }
    [name |-> "mk", params |-> <<>>,
     body |-> <<Var("i", Num(0)), Function(2), ReturnStmt(Variable("inc"))>>],
    \* 2: fun inc() { i = i + 1; return i; }
    [name |-> "inc", params |-> <<>>,
     body |-> <<Expression(Assign("i", Binary(Variable("i"), "Plus", Num(1)))),
                ReturnStmt(Variable("i"))>>],
    \* 3: fun setx() { x = 2; }
    [name |-> "setx", params |-> <<>>,
     body |-> <<Expression(Assign("x", Num(2)))>>],
    \* 4: fun getx() { return x; }
    [name |-> "getx", params |-> <<>>,
     body |-> <<ReturnStmt(Variable("x"))>>],
    \* 5: fun getz() { return z; }
    [name |-> "getz", params |-> <<>>,
     body |-> <<ReturnStmt(Variable("z"))>>],
    \* 6: fun nest(n) { { if (n > 0) { while (true) { return n; print "w"; }
    \*                                 print "i"; }
    \*                    print "b"; }
    \*                  print "f"; return -1; }
    [name |-> "nest", params |-> <<"n">>,
     body |-> <<Block(<<If(Binary(Variable("n"), "Greater", Num(0)),
                           Block(<<While(Literal(Bool(TRUE)),
                                         Block(<<ReturnStmt(Variable("n")),
                                                 PrintStmt(StrLit("w"))>>)),
                                   PrintStmt(StrLit("i"))>>)),
                        PrintStmt(StrLit("b"))>>),
                PrintStmt(StrLit("f")),
                ReturnStmt(Unary("Minus", Num(1)))>>],
    \* 7: fun loop(n) { while (n < 3) { if (n == 2) return n; n = n + 1; } }
    [name |-> "loop", params |-> <<"n">>,
     body |-> <<While(Binary(Variable("n"), "Less", Num(3)),
                      Block(<<If(Binary(Variable("n"), "EqualEqual", Num(2)),
                                 ReturnStmt(Variable("n"))),
                              Expression(Assign("n", Binary(Variable("n"), "Plus",
                                                            Num(1))))>>))>>],
    \* 8: fun bare() { return; print "x"; }
    [name |-> "bare", params |-> <<>>,
     body |-> <<ReturnStmt(NoOp), PrintStmt(StrLit("x"))>>],
    \* 9: (class A) init() { this.x = 1; }
    [name |-> "init", params |-> <<>>,
     body |-> <<Expression(Set(This, "x", Num(1)))>>],
    \* 10: (class B) init(p) { this.p = p; return; this.q = 1; }
    [name |-> "init", params |-> <<"p">>,
     body |-> <<Expression(Set(This, "p", Variable("p"))),
                ReturnStmt(NoOp),
                Expression(Set(This, "q", Num(1)))>>],
    \* 11: (class C) m(a) { return a; }
    [name |-> "m", params |-> <<"a">>,
     body |-> <<ReturnStmt(Variable("a"))>>],
    \* 12: fun noret() { var q = 1; }
    [name |-> "noret", params |-> <<>>,
     body |-> <<Var("q", Num(1))>>],
    \* 13: (class E) init() { print nope; print "unreached"; }
    [name |-> "init", params |-> <<>>,
     body |-> <<PrintStmt(Variable("nope")), PrintStmt(StrLit("unreached"))>>],
    \* 14: fun bad() { { if (true) return 1 + "x"; } print "unreached"; }
    [name |-> "bad", params |-> <<>>,
     body |-> <<Block(<<If(Literal(Bool(TRUE)),
                           ReturnStmt(Binary(Num(1), "Plus", StrLit("x"))))>>),
                PrintStmt(StrLit("unreached"))>>],
    \* 15: (class R) init(n) { if (n) K(false); }
    [name |-> "init", params |-> <<"n">>,
     body |-> <<If(Variable("n"), CallStmt("K", <<Literal(Bool(FALSE))>>))>>],
    \* 16: (class Base) init(v) { this.v = v; }
    [name |-> "init", params |-> <<"v">>,
     body |-> <<Expression(Set(This, "v", Variable("v")))>>],
    \* 17: (class C) m() { return 1; }
    [name |-> "m", params |-> <<>>,
     body |-> <<ReturnStmt(Num(1))>>],
    \* 18: (class P) set() { this.x = 1; }
    [name |-> "set", params |-> <<>>,
     body |-> <<Expression(Set(This, "x", Num(1)))>>],
    \* 19: (class P) get() { return this.t; }
    [name |-> "get", params |-> <<>>,
     body |-> <<ReturnStmt(Get(This, "t"))>>],
    \* 20: (class P) init(t) { this.t = t; }
    [name |-> "init", params |-> <<"t">>,
     body |-> <<Expression(Set(This, "t", Variable("t")))>>],
    \* 21: fun a(v) { return v; }
    [name |-> "a", params |-> <<"v">>,
     body |-> <<ReturnStmt(Variable("v"))>>],
    \* 22: fun b(v) { return v; }
    [name |-> "b", params |-> <<"v">>,
     body |-> <<ReturnStmt(Variable("v"))>>],
    \* 23: fun g(n) { if (n == 0) return loc; var loc = 7; return n; }
    [name |-> "g", params |-> <<"n">>,
     body |-> <<If(Binary(Variable("n"), "EqualEqual", Num(0)),
                   ReturnStmt(Variable("loc"))),
                Var("loc", Num(7)),
                ReturnStmt(Variable("n"))>>],
    \* 24: fun r(n) { if (n > 0) r(n - 1); return n; }
    [name |-> "r", params |-> <<"n">>,
     body |-> <<If(Binary(Variable("n"), "Greater", Num(0)),
                   Expression(Call(Variable("r"),
                                   <<Binary(Variable("n"), "Minus", Num(1))>>))),
                ReturnStmt(Variable("n"))>>],
    \* 25: fun one() { print "one"; return 1; }
    [name |-> "one", params |-> <<>>,
     body |-> <<PrintStmt(StrLit("one")), ReturnStmt(Num(1))>>],
    \* 26: fun two() { print "two"; return 2; }
    [name |-> "two", params |-> <<>>,
     body |-> <<PrintStmt(StrLit("two")), ReturnStmt(Num(2))>>],
    \* 27: fun unary(v) { print "unary"; return v; }
    [name |-> "unary", params |-> <<"v">>,
     body |-> <<PrintStmt(StrLit("unary")), ReturnStmt(Variable("v"))>>]
>>

(***************************************************************************)
(* The pools of top-level statements.  A program is any sequence of at     *)
(* most MaxSteps statements of one pool.                                   *)
(***************************************************************************)
\* closures over a variable of the declaring scope
PoolCapture == <<
    Var("x", Num(1)),                                   \* var x = 1;
    Function(3),                                        \* fun setx() { x = 2; }
    CallStmt("setx", <<>>),                             \* setx();
    PrintStmt(Variable("x")),                           \* print x;
    Function(4),                                        \* fun getx() { return x; }
    Expression(Assign("x", Num(3))),                    \* x = 3;
    PrintCall("getx", <<>>)                             \* print getx();
>>

\* closures that outlive the scope that declared them
PoolCounter == <<
    Function(1),                                        \* fun mk() { ... }
    Var("f", Call(Variable("mk"), <<>>)),               \* var f = mk();
    PrintCall("f", <<>>),                               \* print f();
    Var("h", NoOp),                                     \* var h;
    \* { var z = 1; fun getz() { return z; } h = getz; z = 2; }
    Block(<<Var("z", Num(1)), Function(5),
            Expression(Assign("h", Variable("getz"))),
            Expression(Assign("z", Num(2)))>>),
    PrintCall("h", <<>>)                                \* print h();
>>

\* return from nested statements
PoolReturn == <<
    Function(6),                                        \* fun nest(n) { ... }
    Function(7),                                        \* fun loop(n) { ... }
    Function(8),                                        \* fun bare() { ... }
    PrintCall("nest", <<Num(1)>>),                      \* print nest(1);
    PrintCall("nest", <<Num(0)>>),                      \* print nest(0);
    Var("v", Call(Variable("loop"), <<Num(0)>>)),       \* var v = loop(0);
    \* print loop(3) == bare();
    PrintStmt(Binary(Call(Variable("loop"), <<Num(3)>>), "EqualEqual",
                     Call(Variable("bare"), <<>>))),
    PrintStmt(Variable("v")),                           \* print v;
    ReturnStmt(Num(7))                                  \* return 7;
>>

\* classes and initializers
PoolInit == <<
    ClassStmt("A", <<9>>),                              \* class A { init() {...} }
    ClassStmt("B", <<10>>),                             \* class B { init(p) {...} }
    Function(12),                                       \* fun noret() { var q = 1; }
    Var("a", Call(Variable("A"), <<>>)),                \* var a = A();
    PrintStmt(Get(Variable("a"), "x")),                 \* print a.x;
    PrintCall("B", <<Num(5)>>),                         \* print B(5);
    PrintCall("noret", <<>>),                           \* print noret();
    Var("K", NoOp),                                     \* var K;
    \* { class R { init(n) { if (n) K(false); } } K = R; print R(true); }
    Block(<<ClassStmt("R", <<15>>),
            Expression(Assign("K", Variable("R"))),
            PrintCall("R", <<Literal(Bool(TRUE))>>)>>)
>>

\* runtime errors
PoolError == <<
    ClassStmt("E", <<13>>),                             \* class E { init() {...} }
    Var("e", Call(Variable("E"), <<>>)),                \* var e = E();
    Function(14),                                       \* fun bad() { ... }
    CallStmt("bad", <<>>),                              \* bad();
    PrintStmt(StrLit("next")),                          \* print "next";
    PrintStmt(Unary("Minus", StrLit("s"))),             \* print -"s";
    \* { print "in"; print 1 < nil; print "unreached"; }
    Block(<<PrintStmt(StrLit("in")),
            PrintStmt(Binary(Num(1), "Less", Literal(Nil))),
            PrintStmt(StrLit("unreached"))>>)
>>

\* calls with a wrong number of arguments
PoolArity == <<
    ClassStmt("A", <<9>>),                              \* class A { init() {...} }
    ClassStmt("C", <<11>>),                             \* class C { m(a) {...} }
    Function(12),                                       \* fun noret() { var q = 1; }
    CallStmt("A", <<Num(1)>>),                          \* A(1);
    Var("c", Call(Variable("C"), <<Num(1), Num(2)>>)),  \* var c = C(1, 2);
    Var("d", Call(Variable("C"), <<>>)),                \* var d = C();
    CallStmt("noret", <<Num(1)>>),                      \* noret(1);
    CallStmt("clock", <<Num(1)>>),                      \* clock(1);
    \* d.m();
    Expression(Call(Get(Variable("d"), "m"), <<>>)),
    \* print d.m(4);
    PrintStmt(Call(Get(Variable("d"), "m"), <<Num(4)>>))
>>

\* a class that inherits its initializer
PoolInherit == <<
    Var("d", Call(Variable("Derived"), <<Num(7)>>)),    \* var d = Derived(7);
    PrintStmt(Get(Variable("d"), "v")),                 \* print d.v;
    Var("l", Call(Variable("Leaf"), <<Num(8)>>)),       \* var l = Leaf(8);
    PrintStmt(Get(Variable("l"), "v")),                 \* print l.v;
    \* print Base(9).v;
    PrintStmt(Get(Call(Variable("Base"), <<Num(9)>>), "v"))
>>

\* fields and methods of one name
PoolProperty == <<
    Expression(Set(Variable("c"), "m", Num(5))),        \* c.m = 5;
    PrintStmt(Get(Variable("c"), "m")),                 \* print c.m;
    Expression(Set(Variable("c"), "f", Num(3))),        \* c.f = 3;
    PrintStmt(Get(Variable("c"), "f")),                 \* print c.f;
    PrintStmt(Get(Variable("c"), "zz"))                 \* print c.zz;
>>

\* the receiver of a method
PoolThis == <<
    Expression(Call(Get(Variable("a"), "set"), <<>>)),  \* a.set();
    PrintStmt(Get(Variable("a"), "x")),                 \* print a.x;
    Var("m", Get(Variable("a"), "get")),                \* var m = a.get;
    Expression(Get(Variable("b"), "get")),              \* b.get;
    PrintCall("m", <<>>),                               \* print m();
    Var("c", Call(Variable("P"), <<Num(3)>>))           \* var c = P(3);
>>

\* two names of one instance
PoolAlias == <<
    Expression(Set(Variable("a"), "x", Num(1))),        \* a.x = 1;
    Expression(Set(Variable("b"), "x", Num(2))),        \* b.x = 2;
    PrintStmt(Get(Variable("a"), "x")),                 \* print a.x;
    PrintStmt(Get(Variable("b"), "x"))                  \* print b.x;
>>

\* blocks
PoolBlock == <<
    \* { var a = 3; print a; }
    Block(<<Var("a", Num(3)), PrintStmt(Variable("a"))>>),
    PrintStmt(Variable("a")),                           \* print a;
    \* { a = 4; var b = 5; var c = 6; print b; }
    Block(<<Expression(Assign("a", Num(4))), Var("b", Num(5)), Var("c", Num(6)),
            PrintStmt(Variable("b"))>>),
    PrintStmt(Variable("b")),                           \* print b;
    \* { var a = 7; { var a = 8; b = a; } print a; }
    Block(<<Var("a", Num(7)),
            Block(<<Var("a", Num(8)), Expression(Assign("b", Variable("a")))>>),
            PrintStmt(Variable("a"))>>),
    PrintStmt(Variable("c"))                            \* print c;
>>

\* the parameters and locals of an invocation
PoolFrame == <<
    PrintCall("g", <<Num(1)>>),                         \* print g(1);
    PrintCall("g", <<Num(0)>>),                         \* print g(0);
    PrintCall("r", <<Num(2)>>),                         \* print r(2);
    PrintStmt(Variable("n"))                            \* print n;
>>

\* the order of the steps of a call
PoolCallOrder == <<
    \* nil(one(), two());
    Expression(Call(Literal(Nil), <<Call(Variable("one"), <<>>),
                                    Call(Variable("two"), <<>>)>>)),
    \* "s"(one());
    Expression(Call(StrLit("s"), <<Call(Variable("one"), <<>>)>>)),
    \* unary(one(), two());
    Expression(Call(Variable("unary"), <<Call(Variable("one"), <<>>),
                                         Call(Variable("two"), <<>>)>>)),
    \* print unary(two());
    PrintStmt(Call(Variable("unary"), <<Call(Variable("two"), <<>>)>>)),
    \* unary();
    Expression(Call(Variable("unary"), <<>>))
>>

\* two counters of one factory
PoolTwoCounters == <<
    PrintCall("f1", <<>>),                              \* print f1();
    PrintCall("f2", <<>>)                               \* print f2();
>>

Suites == <<PoolCapture, PoolCounter, PoolReturn, PoolInit, PoolError, PoolArity,
            PoolInherit, PoolProperty, PoolThis, PoolAlias, PoolBlock,
            PoolFrame, PoolCallOrder, PoolTwoCounters>>

\* The statements that precede the statements of a pool in every program of
\* the pool (none for the first six pools).
Preludes == <<
    <<>>, <<>>, <<>>, <<>>, <<>>, <<>>,
    \* class Base { init(v) { this.v = v; } }
    \* class Derived < Base {}  class Leaf < Derived {}
    <<ClassStmt("Base", <<16>>), ClassStmtSub("Derived", "Base", <<>>),
      ClassStmtSub("Leaf", "Derived", <<>>)>>,
    \* class C { m() { return 1; } }  var c = C();
    <<ClassStmt("C", <<17>>), Var("c", Call(Variable("C"), <<>>))>>,
    \* class P { init(t) { this.t = t; } set() { this.x = 1; } get() { return this.t; } }
    \* var a = P(1);  var b = P(2);
    <<ClassStmt("P", <<20, 18, 19>>), Var("a", Call(Variable("P"), <<Num(1)>>)),
      Var("b", Call(Variable("P"), <<Num(2)>>))>>,
    \* class A {}  var a = A();  var b = a;
    <<ClassStmt("A", <<>>), Var("a", Call(Variable("A"), <<>>)),
      Var("b", Variable("a"))>>,
    \* var a = 1;  var b = 2;
    <<Var("a", Num(1)), Var("b", Num(2))>>,
    \* fun g(n) { ... }  fun r(n) { ... }
    <<Function(23), Function(24)>>,
    \* fun one() { ... }  fun two() { ... }  fun unary(v) { ... }
    <<Function(25), Function(26), Function(27)>>,
    \* fun mk() { ... }  var f1 = mk();  var f2 = mk();
    <<Function(1), Var("f1", Call(Variable("mk"), <<>>)),
      Var("f2", Call(Variable("mk"), <<>>))>>
>>

(***************************************************************************)
(* expr.rs, stmt.rs, loxvalue.rs, interpreter.rs: the evaluators.  Each    *)
(* takes the heap st and yields R(heap after, Result).                     *)
(***************************************************************************)
RECURSIVE Expr_evaluate(_, _, _), Expr_dispatch(_, _, _), Binary_evaluate(_, _, _),
          Unary_evaluate(_, _, _), Assign_evaluate(_, _, _), Logical_evaluate(_, _, _),
          Call_evaluate(_, _, _), Call_arguments(_, _, _, _, _), Get_evaluate(_, _, _),
          Set_evaluate(_, _, _), Stmt_evaluate(_, _, _), Stmt_dispatch(_, _, _),
          Block_evaluate(_, _, _), Block_statements(_, _, _, _), If_evaluate(_, _, _),
          While_evaluate(_, _, _), ReturnStmt_evaluate(_, _, _),
          Interpreter_interpret(_, _, _, _), Callable_function(_, _, _, _),
          Callable_call(_, _, _), Class_call(_, _, _)

\* An evaluator that uses the result of a sub-evaluation hands it to a helper
\* as a parameter: X_evaluate is the head of the source's function, the
\* helpers after it in the source's order are the rest of its body.

\* a "leak" event records an expression that yielded a Return value
Expr_leak(x, res) ==
    IF res.r.ok /\ Tag(res.r.val) = "Return"
    THEN R(Log(res.st, Ev("leak", res.st.depth, 0, res.r.val, x.k)), res.r)
    ELSE res

\* Expr::evaluate
Expr_evaluate(x, env, st) == Expr_leak(x, Expr_dispatch(x, env, st))

\* the impl of Expr::evaluate of each struct
Expr_dispatch(x, env, st) ==
    IF x.k = "Literal" THEN R(st, Ok(x.value))
    ELSE IF x.k = "Grouping" THEN Expr_evaluate(x.expression, env, st)
    ELSE IF x.k = "NoOp" THEN R(st, Ok(Nil))
    ELSE IF x.k = "Variable" THEN Raised(st, Environment_get(st.envs, env, x.name))
    ELSE IF x.k = "This" THEN Raised(st, Environment_get(st.envs, env, "this"))
    ELSE IF x.k = "Binary" THEN Binary_evaluate(x, env, st)
    ELSE IF x.k = "Unary" THEN Unary_evaluate(x, env, st)
    ELSE IF x.k = "Assign" THEN Assign_evaluate(x, env, st)
    ELSE IF x.k = "Logical" THEN Logical_evaluate(x, env, st)
    ELSE IF x.k = "Call" THEN Call_evaluate(x, env, st)
    ELSE IF x.k = "Get" THEN Get_evaluate(x, env, st)
    ELSE Set_evaluate(x, env, st)

\* Binary::evaluate: the operator match, given both operands
Binary_match(x, left, right) ==
    IF ~right.r.ok THEN right
    ELSE Raised(right.st, Binary_operator(x.op, left.r.val, right.r.val))

\* Binary::evaluate: the right operand, given the left one
Binary_right(x, env, left) ==
    IF ~left.r.ok THEN left
    ELSE Binary_match(x, left, Expr_evaluate(x.right, env, left.st))

\* Binary::evaluate
Binary_evaluate(x, env, st) == Binary_right(x, env, Expr_evaluate(x.left, env, st))

\* Unary::evaluate: the operator match, given the operand
Unary_match(x, right) ==
    IF ~right.r.ok THEN right
    ELSE Raised(right.st, Unary_operator(x.op, right.r.val))

\* Unary::evaluate
Unary_evaluate(x, env, st) == Unary_match(x, Expr_evaluate(x.right, env, st))

\* Assign::evaluate: the result, given the value and what env.assign did
Assign_result(value, a) ==
    IF a.r.ok
    THEN R([value.st EXCEPT !.envs = a.es], Ok(value.r.val))
    ELSE Raised(value.st, Err(a.r.msg))

\* Assign::evaluate: env.assign, given the value
Assign_assign(x, env, value) ==
    IF ~value.r.ok THEN value
    ELSE Assign_result(value, Environment_assign(value.st.envs, env, x.name, value.r.val))

\* Assign::evaluate
Assign_evaluate(x, env, st) == Assign_assign(x, env, Expr_evaluate(x.value, env, st))

\* a logical operator that yields the truthiness of the deciding operand
Logical_right_coerced(x, env, left) ==
    IF ~left.r.ok THEN left
    ELSE IF x.op = "Or"
         THEN IF is_truthy(left.r.val, FALSE) = Bool(TRUE)
              THEN R(left.st, Ok(Bool(TRUE)))
              ELSE Expr_evaluate(x.right, env, left.st)
         ELSE IF is_truthy(left.r.val, TRUE) = Bool(TRUE)
              THEN R(left.st, Ok(left.r.val))
              ELSE Expr_evaluate(x.right, env, left.st)

\* Logical::evaluate: the short circuit, given the left operand
Logical_right(x, env, left) ==
    IF ~left.r.ok THEN left
    ELSE IF x.op = "Or"
         THEN IF is_truthy(left.r.val, FALSE) = Bool(TRUE)
              THEN R(left.st, Ok(left.r.val))
              ELSE Expr_evaluate(x.right, env, left.st)
         ELSE IF is_truthy(left.r.val, TRUE) = Bool(TRUE)
              THEN R(left.st, Ok(left.r.val))
              ELSE Expr_evaluate(x.right, env, left.st)

\* Logical::evaluate
Logical_evaluate(x, env, st) == Logical_right(x, env, Expr_evaluate(x.left, env, st))

\* the argument loop of Call::evaluate: the push of the i-th argument a
Call_arguments_push(args, i, env, acc, a) ==
    IF ~a.r.ok THEN [st |-> a.st, r |-> a.r, vals |-> acc]
    ELSE Call_arguments(args, i + 1, env, a.st, Append(acc, a.r.val))

\* the argument loop of Call::evaluate, from the i-th argument on
Call_arguments(args, i, env, st, acc) ==
    IF i > Len(args) THEN [st |-> st, r |-> Ok(Nil), vals |-> acc]
    ELSE Call_arguments_push(args, i, env, acc, Expr_evaluate(args[i], env, st))

\* a "called" event records the result of the dispatch whose "calling" event
\* is the calling-th of the log
Call_called(calling, res) ==
    R(Log(res.st, Ev("called", res.st.depth, calling, res.r.val, ErrText(res.r))), res.r)

\* Call::evaluate: the match on the callee
Call_match(f, arguments, st) ==
    IF Tag(f) = "Callable"
    THEN IF st.calls[f.n].arity # Len(arguments)
         THEN Raised(st, Err(ExpectedArguments(st.calls[f.n].arity, Len(arguments))))
         ELSE Callable_call(f.n, arguments, st)
    ELSE IF Tag(f) = "Class"
         THEN Class_call(f.n, arguments, st)
         ELSE Raised(st, Err("Can only call functions and classes."))

\* Call::evaluate: the dispatch, given the callee f and the arguments a; a
\* "calling" event records the callee and the number of arguments
Call_dispatch(f, a) ==
    IF ~a.r.ok THEN R(a.st, a.r)
    ELSE Call_called(Len(a.st.log) + 1,
                     Call_match(f, a.vals,
                                Log(a.st, Ev("calling", a.st.depth, Len(a.vals), f, ""))))

\* Call::evaluate: the argument loop, given the callee
Call_callee(x, env, function) ==
    IF ~function.r.ok THEN function
    ELSE Call_dispatch(function.r.val,
                       Call_arguments(x.arguments, 1, env, function.st, <<>>))

\* Call::evaluate
Call_evaluate(x, env, st) == Call_callee(x, env, Expr_evaluate(x.callee, env, st))

\* Get::evaluate: the match on the object
Get_match(x, object) ==
    IF ~object.r.ok THEN object
    ELSE IF Tag(object.r.val) = "Instance"
         THEN InstanceValue_get_value(object.st, object.r.val.n, x.name)
         ELSE Raised(object.st, Err("Only instances have properties."))

\* Get::evaluate
Get_evaluate(x, env, st) == Get_match(x, Expr_evaluate(x.object, env, st))

\* Set::evaluate: set_value, given the object and the value
Set_set_value(x, object, value) ==
    IF ~value.r.ok THEN value
    ELSE R(InstanceValue_set_value(value.st, object.r.val.n, x.name, value.r.val),
           Ok(value.r.val))

\* Set::evaluate: the match on the object
Set_match(x, env, object) ==
    IF ~object.r.ok THEN object
    ELSE IF Tag(object.r.val) = "Instance"
         THEN Set_set_value(x, object, Expr_evaluate(x.value, env, object.st))
         ELSE Raised(object.st, Err("Only instances have fields."))

\* Set::evaluate
Set_evaluate(x, env, st) == Set_match(x, env, Expr_evaluate(x.object, env, st))

\* a function whose closure is a new child of the declaring environment,
\* which it shares with the other functions declared there
Function_evaluate_child(f, env, st) ==
    R([st EXCEPT !.envs = Environment_define(
                              Append(@, Environment_new_child(env)),
                              env, Funs[f].name, CallableV(Len(st.calls) + 1)),
                 !.calls = Append(@, [arity |-> Len(Funs[f].params),
                                      fn |-> f,
                                      string |-> "<fn " \o Funs[f].name \o ">",
                                      name |-> Funs[f].name,
                                      environment |-> Len(st.envs) + 1,
                                      is_initializer |-> FALSE])],
      Ok(CallableV(Len(st.calls) + 1)))

\* Function::evaluate: the closure is a copy of the declaring environment,
\* taken before the function is defined in the declaring environment
Function_evaluate(f, env, st) ==
    R([st EXCEPT !.envs = Environment_define(
                              Append(@, Environment_clone(st.envs, env)),
                              env, Funs[f].name, CallableV(Len(st.calls) + 1)),
                 !.calls = Append(@, [arity |-> Len(Funs[f].params),
                                      fn |-> f,
                                      string |-> "<fn " \o Funs[f].name \o ">",
                                      name |-> Funs[f].name,
                                      environment |-> Len(st.envs) + 1,
                                      is_initializer |-> FALSE])],
      Ok(CallableV(Len(st.calls) + 1)))

\* is_initializer is true iff the method is named init
Mark_initializer(st, name, c) ==
    IF name = "init" THEN Callable_set_initializer(st, c) ELSE st

RECURSIVE ClassStmt_methods(_, _, _, _, _)
\* the method loop of ClassStmt::evaluate: the insert of the i-th method
ClassStmt_methods_insert(ms, i, env, methods, thing) ==
    ClassStmt_methods(ms, i + 1, env,
                      Mark_initializer(thing.st, Funs[ms[i]].name, thing.r.val.n),
                      (Funs[ms[i]].name :> thing.r.val) @@ methods)

\* the method loop of ClassStmt::evaluate, from the i-th method on
ClassStmt_methods(ms, i, env, st, methods) ==
    IF i > Len(ms) THEN [st |-> st, methods |-> methods]
    ELSE ClassStmt_methods_insert(ms, i, env, methods, Function_evaluate(ms[i], env, st))

\* ClassStmt::evaluate: the class, given its methods
ClassStmt_define(s, env, m) ==
    R([m.st EXCEPT !.classes = Append(@, [name |-> s.name, arity |-> 0,
                                          methods |-> m.methods, super_class |-> 0]),
                   !.envs = Environment_define(@, env, s.name,
                                               ClassV(Len(m.st.classes) + 1))],
      Ok(Nil))

\* the superclass of a class declaration, resolved when the class is declared:
\* Nil when the declaration names none, and it must be a class
ClassStmt_superclass(s, env, st) ==
    IF "superclass" \notin DOMAIN s THEN R(st, Ok(Nil))
    ELSE IF ~Environment_get(st.envs, env, s.superclass).ok
         THEN Raised(st, Environment_get(st.envs, env, s.superclass))
         ELSE IF Tag(Environment_get(st.envs, env, s.superclass).val) # "Class"
              THEN Raised(st, Err("Superclass must be a class."))
              ELSE R(st, Environment_get(st.envs, env, s.superclass))

\* the class just declared keeps a reference to its superclass
ClassStmt_set_super(superclass, res) ==
    IF Tag(superclass) = "Class"
    THEN R([res.st EXCEPT !.classes[Len(res.st.classes)].super_class = superclass.n],
           res.r)
    ELSE res

\* the class declaration, given its superclass
ClassStmt_inherit(s, env, sup) ==
    IF ~sup.r.ok THEN sup
    ELSE ClassStmt_set_super(sup.r.val,
             ClassStmt_define(s, env,
                              ClassStmt_methods(s.methods, 1, env, sup.st, EmptyMap)))

\* ClassStmt::evaluate
ClassStmt_evaluate(s, env, st) ==
    ClassStmt_inherit(s, env, ClassStmt_superclass(s, env, st))

\* a definition that binds the name to a copy of an instance
Var_define_copy(s, env, val) ==
    IF ~val.r.ok THEN val
    ELSE IF Tag(val.r.val) = "Instance"
         THEN R([val.st EXCEPT !.insts = Append(@, val.st.insts[val.r.val.n]),
                               !.envs = Environment_define(@, env, s.name,
                                            InstanceV(Len(val.st.insts) + 1))],
                Ok(val.r.val))
         ELSE R([val.st EXCEPT !.envs = Environment_define(@, env, s.name, val.r.val)],
                Ok(val.r.val))

\* Var::evaluate: env.define, given the value
Var_define(s, env, val) ==
    IF ~val.r.ok THEN val
    ELSE R([val.st EXCEPT !.envs = Environment_define(@, env, s.name, val.r.val)],
           Ok(val.r.val))

\* Var::evaluate
Var_evaluate(s, env, st) == Var_define(s, env, Expr_evaluate(s.initializer, env, st))

\* Print::evaluate: a "print" event stands for the line written to stdout
Print_println(value) ==
    IF ~value.r.ok THEN value
    ELSE R(Log(value.st, Ev("print", value.st.depth, 0, value.r.val,
                            Display(value.st, value.r.val))), Ok(Nil))

\* Print::evaluate
Print_evaluate(s, env, st) == Print_println(Expr_evaluate(s.expression, env, st))

\* ReturnStmt::evaluate: the Return value, given the value; a "return" event
\* records that the statement completed
ReturnStmt_box(value) ==
    IF ~value.r.ok THEN value
    ELSE R(Log(value.st, Ev("return", value.st.depth, 0, value.r.val, "")),
           Ok(Return(value.r.val)))

\* ReturnStmt::evaluate
ReturnStmt_evaluate(s, env, st) ==
    IF s.value.k = "NoOp"
    THEN R(Log(st, Ev("return", st.depth, 0, Nil, "")), Ok(Return(Nil)))
    ELSE ReturnStmt_box(Expr_evaluate(s.value, env, st))

\* the match of Block::evaluate's loop without the early return
Block_match_ignoring_return(statements, i, scoped_env, res) ==
    IF ~res.r.ok THEN res
    ELSE Block_statements(statements, i + 1, scoped_env, res.st)

\* the statement loop of Block::evaluate: the match on the i-th result
Block_match(statements, i, scoped_env, res) ==
    IF ~res.r.ok THEN res
    ELSE IF Tag(res.r.val) = "Return" THEN R(res.st, Ok(res.r.val))
    ELSE Block_statements(statements, i + 1, scoped_env, res.st)

\* the statement loop of Block::evaluate, from the i-th statement on
Block_statements(statements, i, scoped_env, st) ==
    IF i > Len(statements) THEN R(st, Ok(Nil))
    ELSE Block_match(statements, i, scoped_env,
                     Stmt_evaluate(statements[i], scoped_env, st))

\* a block that runs its statements in the environment it is in
Block_evaluate_in_place(s, env, st) ==
    Block_statements(s.statements, 1, env, st)

\* Block::evaluate
Block_evaluate(s, env, st) ==
    Block_statements(s.statements, 1, Len(st.envs) + 1,
                     [st EXCEPT !.envs = Append(@, Environment_new_child(env))])

\* If::evaluate: the branch, given the condition
If_branch(s, env, condition) ==
    IF ~condition.r.ok THEN condition
    ELSE IF is_truthy(condition.r.val, FALSE) = Bool(TRUE)
         THEN Stmt_evaluate(s.then_branch, env, condition.st)
         ELSE IF s.has_else
              THEN Stmt_evaluate(s.else_branch, env, condition.st)
              ELSE R(condition.st, Ok(Nil))

\* If::evaluate
If_evaluate(s, env, st) == If_branch(s, env, Expr_evaluate(s.condition, env, st))

\* While::evaluate: the match on the result of the body
While_match(s, env, body) ==
    IF ~body.r.ok THEN body
    ELSE IF Tag(body.r.val) = "Return" THEN R(body.st, Ok(body.r.val))
    ELSE While_evaluate(s, env, body.st)

\* While::evaluate: the body, given the condition; every iteration takes one
\* unit of fuel
While_body(s, env, condition) ==
    IF ~condition.r.ok THEN condition
    ELSE IF ~LoxValue_eq(is_truthy(condition.r.val, FALSE), Bool(TRUE))
         THEN R(condition.st, Ok(Nil))
         ELSE IF condition.st.fuel = 0
              THEN R([condition.st EXCEPT !.exhausted = TRUE], Err(OutOfFuel))
              ELSE While_match(s, env,
                               Stmt_evaluate(s.body, env,
                                             [condition.st EXCEPT !.fuel = @ - 1]))

\* While::evaluate
While_evaluate(s, env, st) == While_body(s, env, Expr_evaluate(s.condition, env, st))

\* the impl of Stmt::evaluate of each struct
Stmt_dispatch(s, env, st) ==
    IF s.k = "Expression" THEN Expr_evaluate(s.expression, env, st)
    ELSE IF s.k = "Print" THEN Print_evaluate(s, env, st)
    ELSE IF s.k = "Var" THEN Var_evaluate(s, env, st)
    ELSE IF s.k = "Block" THEN Block_evaluate(s, env, st)
    ELSE IF s.k = "If" THEN If_evaluate(s, env, st)
    ELSE IF s.k = "While" THEN While_evaluate(s, env, st)
    ELSE IF s.k = "Function" THEN Function_evaluate(s.f, env, st)
    ELSE IF s.k = "ReturnStmt" THEN ReturnStmt_evaluate(s, env, st)
    ELSE ClassStmt_evaluate(s, env, st)

\* Stmt::evaluate; a "stmt" event records that the statement was executed
Stmt_evaluate(s, env, st) ==
    Stmt_dispatch(s, env, Log(st, Ev("stmt", st.depth, 0, Nil, s.k)))

\* the match of Interpreter::interpret handing the Return value on boxed
Interpreter_match_boxed(statements, i, environment, res) ==
    IF ~res.r.ok THEN res
    ELSE IF Tag(res.r.val) = "Return" THEN R(res.st, Ok(res.r.val))
    ELSE Interpreter_interpret(statements, i + 1, environment, res.st)

\* Interpreter::interpret: the match on the result of the i-th statement
Interpreter_match(statements, i, environment, res) ==
    IF ~res.r.ok THEN res
    ELSE IF Tag(res.r.val) = "Return" THEN R(res.st, Ok(Unbox(res.r.val)))
    ELSE Interpreter_interpret(statements, i + 1, environment, res.st)

\* Interpreter::interpret, from the i-th statement on
Interpreter_interpret(statements, i, environment, st) ==
    IF i > Len(statements) THEN R(st, Ok(Nil))
    ELSE Interpreter_match(statements, i, environment,
                           Stmt_evaluate(statements[i], environment, st))

RECURSIVE Bind_parameters(_, _, _, _, _)
\* the parameter loop of the closure built by Function::evaluate
Bind_parameters(es, environment, params, arguments, i) ==
    IF i > Len(params) THEN es
    ELSE Bind_parameters(Environment_define(es, environment, params[i], arguments[i]),
                         environment, params, arguments, i + 1)

\* the function run in a copy of the closure environment made for the call
Callable_function_in_copy(fn, arguments, environment, st) ==
    IF fn = 0 THEN R(st, Ok(Number(st.clock)))
    ELSE Interpreter_interpret(Funs[fn].body, 1, Len(st.envs) + 1,
             [st EXCEPT !.envs = Bind_parameters(
                                     Append(@, Environment_clone(st.envs, environment)),
                                     Len(st.envs) + 1, Funs[fn].params, arguments, 1)])

\* (self.function)(arguments, environment): the clock native of
\* Interpreter::new (fn = 0) or the closure built by Function::evaluate
Callable_function(fn, arguments, environment, st) ==
    IF fn = 0 THEN R(st, Ok(Number(st.clock)))
    ELSE Interpreter_interpret(Funs[fn].body, 1, environment,
             [st EXCEPT !.envs = Bind_parameters(@, environment, Funs[fn].params,
                                                 arguments, 1)])

\* an "exit" event records the result of the call of c at depth d
Callable_exit(c, d, out) ==
    R(Log(out.st, Ev("exit", d, c, out.r.val, ErrText(out.r))), out.r)

\* Callable::call: the result, given the result of the function; an
\* initializer yields the `this` of its closure whatever the function did
Callable_result(c, environment, result) ==
    IF result.st.calls[c].is_initializer
    THEN Raised([result.st EXCEPT !.depth = @ - 1],
                Environment_get_by_string(result.st.envs, environment, "this"))
    ELSE R([result.st EXCEPT !.depth = @ - 1], result.r)

\* Callable::call: self is defined in its own environment, bound to a clone
Callable_define_self(st, c) ==
    [st EXCEPT !.envs = Environment_define(@, st.calls[c].environment,
                                           st.calls[c].name, CallableV(Len(st.calls)))]

\* a "call" event records the entry into the function of c, which takes one
\* unit of fuel
Callable_enter(st, c) ==
    Log([st EXCEPT !.fuel = @ - 1, !.depth = @ + 1],
        Ev("call", st.depth + 1, c, Nil, ""))

\* Callable::call
Callable_call(c, arguments, st) ==
    IF st.calls[c].arity # Len(arguments)
    THEN Raised(st, Err(ExpectedArgumentS(st.calls[c].arity, Len(arguments))))
    ELSE IF st.fuel = 0
         THEN R([st EXCEPT !.exhausted = TRUE], Err(OutOfFuel))
         ELSE Callable_exit(c, st.depth + 1,
                  Callable_result(c, st.calls[c].environment,
                      Callable_function(st.calls[c].fn, arguments,
                          st.calls[c].environment,
                          Callable_enter(Callable_define_self(Callable_clone(st, c), c),
                                         c))))

\* an "inst" event records what the call that created instance yields
Class_called(instance, res) ==
    R(Log(res.st, Ev("inst", res.st.depth, instance, res.r.val, ErrText(res.r))), res.r)

\* Class::call: the instance, whose class is a clone; a "new" event records it
Class_instance(st, k) ==
    Log([st EXCEPT !.classes = Append(@, st.classes[k]),
                   !.insts = Append(@, [class |-> Len(st.classes) + 1,
                                        fields |-> EmptyMap])],
        Ev("new", st.depth, Len(st.insts) + 1, InstanceV(Len(st.insts) + 1), ""))

\* Class::call: the match on methods.get("init")
Class_init(methods, instance, arguments, st) ==
    IF "init" \in DOMAIN methods /\ Tag(methods["init"]) = "Callable"
    THEN Callable_call(methods["init"].n, arguments,
                       Callable_bind(st, methods["init"].n, InstanceV(instance)))
    ELSE R(st, Ok(InstanceV(instance)))

\* Class::call
Class_call(k, arguments, st) ==
    Class_called(Len(st.insts) + 1,
                 Class_init(st.classes[k].methods, Len(st.insts) + 1, arguments,
                            Class_instance(st, k)))

(***************************************************************************)
(* Spec: Interpreter::interpret over a program of one pool.  Step is one   *)
(* iteration of its statement loop in the global environment, Finish the   *)
(* end of the statement list.                                              *)
(***************************************************************************)
\* the reading of the system clock
ClockVals == {1000}

\* Interpreter::new: the global environment with the clock native
Init ==
    /\ envs = <<[enclosing |-> 0, values |-> ("clock" :> CallableV(1))]>>
    /\ calls = <<[arity |-> 0, fn |-> 0, string |-> "<native fn>", name |-> "clock",
                  environment |-> 1, is_initializer |-> FALSE]>>
    /\ classes = <<>>
    /\ insts = <<>>
    /\ log = <<>>
    /\ status = "running"
    /\ err = ""
    /\ prog = <<>>
    /\ suite \in 1..Len(Suites)
    /\ last = NoOpRec

Heap(t) ==
    [envs |-> envs, calls |-> calls, classes |-> classes, insts |-> insts, log |-> log,
     fuel |-> MaxFuel, depth |-> 0, clock |-> t, exhausted |-> FALSE]

\* the state after the statement whose result is res
Interpreter_state(res) ==
    /\ ~res.st.exhausted
    /\ envs' = res.st.envs
    /\ calls' = res.st.calls
    /\ classes' = res.st.classes
    /\ insts' = res.st.insts
    /\ log' = res.st.log
    /\ status' = IF ~res.r.ok THEN "error"
                 ELSE IF Tag(res.r.val) = "Return" THEN "returned"
                 ELSE "running"
    /\ err' = ErrText(res.r)

\* one iteration of the loop of Interpreter::interpret at top level
Step(i, t) ==
    /\ status = "running"
    /\ Len(prog) < MaxSteps
    /\ Interpreter_state(Stmt_evaluate(Suites[suite][i], 1, Heap(t)))
    /\ prog' = Append(prog, i)
    /\ UNCHANGED <<suite, last>>

\* the statement list is exhausted: Ok(LoxValue::None)
Finish ==
    /\ status = "running"
    /\ status' = "done"
    /\ UNCHANGED <<envs, calls, classes, insts, log, err, prog, suite, last>>

Next ==
    \/ \E i \in 1..Len(Suites[suite]), t \in ClockVals : Step(i, t)
    \/ Finish

Spec == Init /\ [][Next]_vars

(***************************************************************************)
(* SpecObj: the programs of a pool that start with the pool's prelude.     *)
(* InitObj is the state Interpreter::interpret reaches after the prelude.  *)
(***************************************************************************)
\* Interpreter::new as a heap
Interpreter_new ==
    [envs |-> <<[enclosing |-> 0, values |-> ("clock" :> CallableV(1))]>>,
     calls |-> <<[arity |-> 0, fn |-> 0, string |-> "<native fn>", name |-> "clock",
                  environment |-> 1, is_initializer |-> FALSE]>>,
     classes |-> <<>>, insts |-> <<>>, log |-> <<>>,
     fuel |-> MaxFuel, depth |-> 0, clock |-> 0, exhausted |-> FALSE]

\* the variables hold the heap of res
Interpreter_heap(res) ==
    /\ res.r.ok
    /\ envs = res.st.envs
    /\ calls = res.st.calls
    /\ classes = res.st.classes
    /\ insts = res.st.insts
    /\ log = res.st.log

InitObj ==
    /\ suite \in {p \in 1..Len(Suites) : Preludes[p] # <<>>}
    /\ Interpreter_heap(Interpreter_interpret(Preludes[suite], 1, 1, Interpreter_new))
    /\ status = "running"
    /\ err = ""
    /\ prog = <<>>
    /\ last = NoOpRec

SpecObj == InitObj /\ [][Next]_vars

(***************************************************************************)
(* Properties of Spec.                                                     *)
(***************************************************************************)
\* the program ends with the statements tail of pool p and is still running
EndsWith(p, tail) ==
    /\ suite = p
    /\ status = "running"
    /\ Len(prog) >= Len(tail)
    /\ SubSeq(prog, Len(prog) - Len(tail) + 1, Len(prog)) = tail

\* the last thing the program did was to print the line text
LastPrinted(text) ==
    /\ Len(log) > 0
    /\ log[Len(log)].e = "print"
    /\ log[Len(log)].t = text

\* C3: a function shares its closure environment with the scope that declared
\* it: after `setx();`, whose body assigns 2 to the variable x declared in the
\* same scope as setx, `print x;` outside the function prints 2.
C3_AssignInClosureVisibleOutside ==
    EndsWith(1, <<3, 4>>) => LastPrinted("2")

\* C4: a function reads the value a captured variable has at the time of the
\* call: after `x = 3;` the call `print getx();` prints 3, and a function that
\* left the block that declared it reads the value z had when the block exited.
C4_ReadsValueAtCallTime ==
    /\ EndsWith(1, <<6, 7>>) => LastPrinted("3")
    /\ EndsWith(2, <<5, 6>>) => LastPrinted("2")

\* the results of the calls of callable c, in order
ExitsOf(c) == SelectSeq(log, LAMBDA ev : ev.e = "exit" /\ ev.c = c)

\* C5: for every closure inc returned by mk, the k-th call of that closure
\* returns k.
C5_CounterCounts ==
    \A c \in 1..Len(calls) :
        calls[c].fn = 2 =>
            \A k \in 1..Len(ExitsOf(c)) :
                /\ ExitsOf(c)[k].t = ""
                /\ ExitsOf(c)[k].v = Number(k)

\* one closure returned by mk was called three times
C5_Witness ==
    \E c \in 1..Len(calls) : calls[c].fn = 2 /\ Len(ExitsOf(c)) >= 3

\* C6: when a return statement executes inside a function body, at any nesting
\* of block, if and while, nothing else of the body executes: the next event is
\* the exit of that call, and (for a callable that is not an initializer) the
\* call yields the returned value, unwrapped.
C6_ReturnUnwinds ==
    \A j \in 1..Len(log) :
        (log[j].e = "return" /\ log[j].d >= 1) =>
            /\ j < Len(log)
            /\ log[j + 1].e = "exit"
            /\ log[j + 1].d = log[j].d
            /\ ~calls[log[j + 1].c].is_initializer =>
                   /\ log[j + 1].t = ""
                   /\ log[j + 1].v = log[j].v
                   /\ log[j + 1].v.wrap = 0

\* a return executed in a block in a while in a block in an if in a block
C6_Witness ==
    \E j \in 6..Len(log) :
        /\ log[j].e = "return" /\ log[j].d = 1
        /\ log[j - 2].t = "Block" /\ log[j - 3].t = "While"
        /\ log[j - 4].t = "Block" /\ log[j - 5].t = "If"

\* C7: the Return sentinel is never observable: no expression evaluates to a
\* Return value, and no variable binding, instance field, call result or
\* printed value is a Return value.
C7_ReturnNeverObservable ==
    /\ \A j \in 1..Len(log) :
           /\ log[j].e # "leak"
           /\ log[j].e \in {"print", "exit", "called", "inst"} => log[j].v.wrap = 0
    /\ \A e \in 1..Len(envs) : \A k \in DOMAIN envs[e].values :
           envs[e].values[k].wrap = 0
    /\ \A i \in 1..Len(insts) : \A k \in DOMAIN insts[i].fields :
           insts[i].fields[k].wrap = 0

\* results of calls that returned were bound, compared and printed
C7_Witness ==
    /\ suite = 3
    /\ "v" \in DOMAIN envs[1].values
    /\ envs[1].values["v"] = Number(2)
    /\ \E j \in 1..Len(log) : log[j].e = "print" /\ log[j].t = "true"

\* C8: calling a class that declares init yields the instance created by that
\* call, whether init completes without a return or executes `return;`; a
\* function that is not an initializer and completes without returning
\* yields Nil.
C8_InitReturnsInstance ==
    \A j \in 1..Len(log) :
        /\ (log[j].e = "inst" /\ log[j].t = "") => log[j].v = InstanceV(log[j].c)
        /\ (/\ log[j].e = "exit"
            /\ log[j].t = ""
            /\ calls[log[j].c].fn # 0
            /\ ~calls[log[j].c].is_initializer
            /\ log[j - 1].e # "return") => log[j].v = Nil

\* C9: a runtime error aborts execution: after the error is raised no
\* statement is executed, nothing is called, created or printed, and
\* interpret returns that error.
C9_ErrorAborts ==
    \A j \in 1..Len(log) :
        log[j].e = "error" =>
            /\ \A k \in (j + 1)..Len(log) :
                   log[k].e \notin {"stmt", "print", "calling", "call", "new", "return"}
            /\ status = "error"
            /\ err = log[j].t

\* the arity of a callable value: a class takes the arity of its init, or 0
ArityOf(f) ==
    IF Tag(f) = "Callable" THEN calls[f.n].arity
    ELSE IF "init" \in DOMAIN classes[f.n].methods
         THEN calls[classes[f.n].methods["init"].n].arity
         ELSE 0

\* C10: a call of a callable or class of arity N with M # N arguments fails
\* with exactly "Expected N arguments but got M.", and between the dispatch and
\* the failure no function body or initializer runs.
C10_ArityMismatch ==
    \A j \in 1..Len(log) :
        (/\ log[j].e = "called"
         /\ Tag(log[log[j].c].v) \in {"Callable", "Class"}
         /\ ArityOf(log[log[j].c].v) # log[log[j].c].c) =>
            /\ log[j].t = "Expected " \o ToString(ArityOf(log[log[j].c].v))
                              \o " arguments but got "
                              \o ToString(log[log[j].c].c) \o "."
            /\ \A k \in (log[j].c + 1)..(j - 1) : log[k].e \notin {"call", "stmt"}

\* the program is a program of pool p whose last statements are tail,
\* whatever became of them
Ran(p, tail) ==
    /\ suite = p
    /\ Len(prog) >= Len(tail)
    /\ SubSeq(prog, Len(prog) - Len(tail) + 1, Len(prog)) = tail

\* C11: calling a class that declares no init itself but has an ancestor
\* declaring init runs the ancestor's init with `this` bound to the new
\* instance and with the call's arguments: the creation of such an instance is
\* followed by the entry into the inherited init, and after
\* `var d = Derived(7); print d.v;` (and `var l = Leaf(8); print l.v;` for a
\* transitive ancestor) the field that init wrote from its argument is printed.
C11_InheritedInitRuns ==
    /\ \A j \in 1..Len(log) :
           (/\ log[j].e = "new"
            /\ "init" \notin DOMAIN classes[insts[log[j].c].class].methods
            /\ Class_find_method(classes, insts[log[j].c].class, "init") # 0)
           => /\ j < Len(log)
              /\ log[j + 1].e = "call"
              /\ log[j + 1].c = Class_find_method(classes, insts[log[j].c].class, "init")
    /\ Ran(7, <<1, 2>>) => (status # "error" /\ LastPrinted("7"))
    /\ Ran(7, <<3, 4>>) => (status # "error" /\ LastPrinted("8"))

\* statement i of the pool ran before the last statement of the program
RanBefore(i) == \E j \in 1..(Len(prog) - 1) : prog[j] = i

\* the last statement of the program is statement i of pool p
RanLast(p, i) == suite = p /\ prog # <<>> /\ prog[Len(prog)] = i

\* C12: a property read looks up the instance's fields first and the class's
\* methods second: once `c.m = 5;` ran, where the class of c has a method m,
\* `print c.m;` prints 5; a field without a method of its name is read as
\* written; and reading a name that is neither fails with
\* "Undefined property 'zz'.".
C12_FieldBeforeMethod ==
    /\ (RanLast(8, 2) /\ RanBefore(1)) => (status # "error" /\ LastPrinted("5"))
    /\ (RanLast(8, 4) /\ RanBefore(3)) => (status # "error" /\ LastPrinted("3"))
    /\ RanLast(8, 5) => (status = "error" /\ err = "Undefined property 'zz'.")

\* C13: inside a method obtained as `a.m`, `this` is the receiver a itself:
\* once `a.set();` ran, whose body is `this.x = 1;`, `print a.x;` prints 1;
\* and when `var m = a.get;` was the last binding of m, `print m();` prints
\* the field t of a, which is 1, whatever was read from the instance b or
\* constructed in between.
C13_ThisIsReceiver ==
    /\ (RanLast(9, 2) /\ RanBefore(1)) => (status # "error" /\ LastPrinted("1"))
    /\ (RanLast(9, 5) /\ RanBefore(3)) => (status # "error" /\ LastPrinted("1"))

\* the writes `a.x = 1;` and `b.x = 2;` that ran before the last statement
FieldWrites == {j \in 1..(Len(prog) - 1) : prog[j] \in {1, 2}}

\* the one of them that ran last
LastFieldWrite == CHOOSE j \in FieldWrites : \A k \in FieldWrites : k <= j

\* C14: an instance is shared by reference: after `var b = a`, whatever
\* sequence of the writes `a.x = 1;` and `b.x = 2;` ran, a read of x through
\* either name (`print a.x;`, `print b.x;`) yields the value of the last
\* write, through whichever name it was made.
C14_InstanceSharedByReference ==
    ((RanLast(10, 3) \/ RanLast(10, 4)) /\ FieldWrites # {})
        => /\ status # "error"
           /\ LastPrinted(IF prog[LastFieldWrite] = 1 THEN "1" ELSE "2")

\* a write through a, a write through b, a write through a again, and the
\* read through b prints what was written through a
C14_Witness == Ran(10, <<1, 2, 1, 4>>) /\ LastPrinted("1")

(***************************************************************************)
(* SpecExpr: one operator applied to operands drawn from Operands, in the  *)
(* state Interpreter::interpret reaches after PreludeExpr.  Each action is *)
(* the statement `print EXPRESSION;`, so that the "print" event holds the  *)
(* value of the expression; last records the operator and its operands.    *)
(***************************************************************************)
\* fun a(v) { return v; }  fun b(v) { return v; }  class A {}  class B {}
\* var i = A();  var j = B();  var k = i;
PreludeExpr == <<
    Function(21), Function(22), ClassStmt("A", <<>>), ClassStmt("B", <<>>),
    Var("i", Call(Variable("A"), <<>>)), Var("j", Call(Variable("B"), <<>>)),
    Var("k", Variable("i"))
>>

\* nil true false 0 1 "" "a" a b clock A B i j k
Operands == {
    Literal(Nil), Literal(Bool(TRUE)), Literal(Bool(FALSE)), Num(0), Num(1),
    StrLit(""), StrLit("a"), Variable("a"), Variable("b"), Variable("clock"),
    Variable("A"), Variable("B"), Variable("i"), Variable("j"), Variable("k")
}

InitExpr ==
    /\ suite = 0
    /\ Interpreter_heap(Interpreter_interpret(PreludeExpr, 1, 1, Interpreter_new))
    /\ status = "running"
    /\ err = ""
    /\ prog = <<>>
    /\ last = [op |-> "none", x |-> Literal(Nil), y |-> Literal(Nil)]

\* the statement `print x;` of a program of one statement
Print_step(x, t) ==
    /\ status = "running"
    /\ prog = <<>>
    /\ Interpreter_state(Stmt_evaluate(PrintStmt(x), 1, Heap(t)))
    /\ prog' = <<1>>
    /\ UNCHANGED suite

\* print x == y;  print x != y;
EqualOp(x, op, y, t) ==
    /\ Print_step(Binary(x, op, y), t)
    /\ last' = [op |-> op, x |-> x, y |-> y]

\* print !x;
BangOp(x, t) ==
    /\ Print_step(Unary("Bang", x), t)
    /\ last' = [op |-> "Bang", x |-> x, y |-> x]

\* print a(x) and b(y);  print a(x) or b(y);
LogicalOp(x, op, y, t) ==
    /\ Print_step(Logical(Call(Variable("a"), <<x>>), op, Call(Variable("b"), <<y>>)), t)
    /\ last' = [op |-> op, x |-> x, y |-> y]

\* print x;
PrintOp(x, t) ==
    /\ Print_step(x, t)
    /\ last' = [op |-> "Print", x |-> x, y |-> x]

NextExpr ==
    \/ \E x \in Operands, y \in Operands, t \in ClockVals :
           EqualOp(x, "EqualEqual", y, t) \/ EqualOp(x, "BangEqual", y, t)
    \/ \E x \in Operands, t \in ClockVals : BangOp(x, t)
    \/ \E x \in Operands, y \in Operands, t \in ClockVals :
           LogicalOp(x, "And", y, t) \/ LogicalOp(x, "Or", y, t)
    \/ \E x \in Operands, t \in ClockVals : PrintOp(x, t)

SpecExpr == InitExpr /\ [][NextExpr]_vars

\* the value an operand has in the global environment
Denotes(x) == IF x.k = "Literal" THEN x.value ELSE envs[1].values[x.name]

\* the statement printed a line
HasPrinted == status # "error" /\ Len(log) > 0 /\ log[Len(log)].e = "print"

\* the value it printed
Printed == log[Len(log)].v

\* the line it printed
PrintedLine == log[Len(log)].t

\* equality as specified: values of different variants are unequal, Nil
\* equals Nil, booleans, numbers and strings compare by content, functions,
\* classes and instances by identity
SameValue(v, w) ==
    /\ Tag(v) = Tag(w)
    /\ Tag(v) \in {"Bool", "Number", "Callable", "Class", "Instance"} => v.n = w.n
    /\ Tag(v) = "String" => v.s = w.s

\* C15: `==` is defined for every pair of values: values of different
\* variants are unequal, Nil equals Nil, booleans, numbers and strings compare
\* by content, and a function, class or instance equals itself and no other
\* object; `!=` is the negation of `==` for every pair.
C15_EqualityTotal ==
    /\ last.op = "EqualEqual"
           => (HasPrinted /\ Printed = Bool(SameValue(Denotes(last.x), Denotes(last.y))))
    /\ last.op = "BangEqual"
           => (HasPrinted /\ Printed = Bool(~SameValue(Denotes(last.x), Denotes(last.y))))

\* truthiness as specified: nil and false are falsy, every other value truthy
Truthy(v) == ~(Tag(v) = "Nil" \/ v = Bool(FALSE))

\* C16: `!x` is the boolean negation of the truthiness of x for every value:
\* `!nil` and `!false` are true, and `!x` is false for every other value,
\* including 0, the empty string, functions, classes and instances.
C16_BangNegatesTruthiness ==
    last.op = "Bang" => (HasPrinted /\ Printed = Bool(~Truthy(Denotes(last.x))))

\* the number of times the body of the function bound to name was entered
CallsOf(name) ==
    Cardinality({j \in 1..Len(log) : log[j].e = "call" /\ log[j].c = envs[1].values[name].n})

\* C17: `a and b` evaluates a once; if a is falsy (nil or false) the result
\* is the value of a and b is not evaluated; if a is truthy (any other value,
\* numbers and strings included) b is evaluated and the result is the value of
\* b, not coerced to a boolean.  The operands are the calls a(x) and b(y) of
\* two identity functions, whose entries the log counts.
C17_AndShortCircuits ==
    last.op = "And"
        => /\ HasPrinted
           /\ CallsOf("a") = 1
           /\ IF Truthy(Denotes(last.x))
              THEN CallsOf("b") = 1 /\ Printed = Denotes(last.y)
              ELSE CallsOf("b") = 0 /\ Printed = Denotes(last.x)

\* C18: `a or b` evaluates a once; if a is truthy (any value other than nil
\* and false) the result is the value of a and b is not evaluated; if a is
\* falsy b is evaluated and the result is the value of b, not coerced to a
\* boolean.
C18_OrShortCircuits ==
    last.op = "Or"
        => /\ HasPrinted
           /\ CallsOf("a") = 1
           /\ IF Truthy(Denotes(last.x))
              THEN CallsOf("b") = 0 /\ Printed = Denotes(last.x)
              ELSE CallsOf("b") = 1 /\ Printed = Denotes(last.y)

\* `a(0) or b(i)` yielded 0 without entering b
C18_Witness ==
    /\ last = [op |-> "Or", x |-> Num(0), y |-> Variable("i")]
    /\ HasPrinted
    /\ Printed = Number(0)
    /\ CallsOf("a") = 1
    /\ CallsOf("b") = 0

\* the printable form as specified, of the values Operands denote
PrintableForm(v) ==
    IF Tag(v) = "Nil" THEN "nil"
    ELSE IF Tag(v) = "Bool" THEN (IF v = Bool(TRUE) THEN "true" ELSE "false")
    ELSE IF Tag(v) = "Number" THEN ToString(v.n)
    ELSE IF Tag(v) = "String" THEN v.s
    ELSE IF Tag(v) = "Callable"
         THEN (IF calls[v.n].fn = 0 THEN "<native fn>"
               ELSE "<fn " \o calls[v.n].name \o ">")
    ELSE IF Tag(v) = "Class" THEN classes[v.n].name
    ELSE classes[insts[v.n].class].name \o " instance"

\* C19: Print writes the printable form of the value: `nil` for Nil,
\* `true`/`false` for booleans, the text of a string without surrounding
\* quotes, `<fn NAME>` for a user function, `<native fn>` for a native, the
\* class name for a class and `NAME instance` for an instance.
C19_PrintableForm ==
    last.op = "Print" => (HasPrinted /\ PrintedLine = PrintableForm(Denotes(last.x)))

\* the global environment after a block of PoolBlock ran in the global
\* environment g: the outer variables the block explicitly assigned (a in
\* `{ a = 4; ... }`, b in `{ ... { var a = 8; b = a; } ... }`) have the
\* assigned value, everything else is as before
AfterBlock(g, i) ==
    [k \in DOMAIN g |->
        IF i = 3 /\ k = "a" THEN Number(4)
        ELSE IF i = 5 /\ k = "b" THEN Number(8)
        ELSE g[k]]

\* what the last `print` inside the i-th statement of PoolBlock prints: the
\* variable the block declared, not the outer one of the same name
PrintsInBlock(i) == IF i = 1 THEN "3" ELSE IF i = 3 THEN "5" ELSE "7"

\* C20: a block evaluates its statements in a fresh child environment of the
\* current one: a variable declared in the block shadows an outer variable
\* of the same name only inside the block (the print inside sees the inner
\* one, a later `print a;` / `print b;` outside the outer one, and a name
\* only the block declared is undefined outside), and after the block the
\* enclosing environment has the same names with the same values, except for
\* the outer variables the block explicitly assigned.
C20_BlockScopes ==
    [][(suite = 11 /\ prog' # prog) =>
          /\ prog'[Len(prog')] \in {1, 3, 5} =>
                /\ status' = "running"
                /\ envs'[1].values = AfterBlock(envs[1].values, prog'[Len(prog')])
                /\ envs'[1].enclosing = 0
                /\ Len(envs') > Len(envs)
                /\ envs'[Len(envs) + 1].enclosing = 1
                /\ log'[Len(log')].e = "print"
                /\ log'[Len(log')].t = PrintsInBlock(prog'[Len(prog')])
          /\ prog'[Len(prog')] = 2 =>
                /\ status' = "running"
                /\ log'[Len(log')].e = "print"
                /\ log'[Len(log')].v = envs[1].values["a"]
          /\ prog'[Len(prog')] = 4 =>
                /\ status' = "running"
                /\ log'[Len(log')].e = "print"
                /\ log'[Len(log')].v = envs[1].values["b"]
          /\ prog'[Len(prog')] = 6 =>
                /\ status' = "error"
                /\ err' = "Undefined variable 'c'."]_vars

\* all three blocks ran: the outer a and b hold what the blocks assigned,
\* no name was added, and `print a;` outside prints the outer a
C20_Witness ==
    /\ Ran(11, <<1, 3, 5, 2>>)
    /\ envs[1].values = ("a" :> Number(4)) @@ ("b" :> Number(8)) @@ ("clock" :> CallableV(1))
    /\ LastPrinted("4")

(***************************************************************************)
(* scanner.rs.  A source is a sequence of characters; a character is a     *)
(* string of length one.  Scanner::current counts characters               *)
(* (chars().nth) but is compared with source.len() and used to slice the   *)
(* source, which count bytes: Width is the number of bytes of a character  *)
(* in UTF-8.  In SpecScan the variable last holds the Scanner struct, with *)
(* a field panicked that is set when an unwrap or a slice panics.          *)
(***************************************************************************)
MaxSource == 4

\* the characters sources are made of
Chars == {"1", ".", "a", "\"", "\n", "/", " ", "=", "é"}

Width(c) == IF c = "é" THEN 2 ELSE 1

RECURSIVE source_len(_)
\* source.len(): the length in bytes
source_len(source) ==
    IF source = <<>> THEN 0 ELSE Width(Head(source)) + source_len(Tail(source))

\* a byte offset that is the start of a character or the end of the source
is_char_boundary(source, b) ==
    \E k \in 0..Len(source) : source_len(SubSeq(source, 1, k)) = b

RECURSIVE concat(_)
concat(cs) == IF cs = <<>> THEN "" ELSE Head(cs) \o concat(Tail(cs))

\* &source[a..b], defined when a and b are character boundaries, a <= b
slice(source, a, b) ==
    concat(SelectSeq([k \in 1..Len(source) |->
                         IF /\ a <= source_len(SubSeq(source, 1, k - 1))
                            /\ source_len(SubSeq(source, 1, k)) <= b
                         THEN source[k] ELSE ""],
                     LAMBDA c : c # ""))

\* &source[a..b] panics
slice_panics(source, a, b) ==
    \/ a > b
    \/ b > source_len(source)
    \/ ~is_char_boundary(source, a)
    \/ ~is_char_boundary(source, b)

\* fn is_digit
is_digit(c) == c \in {"0", "1", "2", "3", "4", "5", "6", "7", "8", "9"}

\* fn is_alpha (of the characters of Chars)
is_alpha(c) == c \in {"a", "_"}

\* fn is_alpha_numeric
is_alpha_numeric(c) == is_alpha(c) \/ is_digit(c)

\* static KEYWORDS
KEYWORDS ==
    [and |-> "And", class |-> "Class", else |-> "Else", false |-> "False",
     for |-> "For", fun |-> "Fun", if |-> "If", nil |-> "Nil", or |-> "Or",
     print |-> "Print", return |-> "Return", super |-> "Super", this |-> "This",
     true |-> "True", var |-> "Var", while |-> "While"]

\* Scanner::new
Scanner_new(source) ==
    [source |-> source, tokens |-> <<>>, start |-> 0, current |-> 0, line |-> 1,
     panicked |-> FALSE]

\* a panic ends the scan
Scanner_panic(sc) == [sc EXCEPT !.panicked = TRUE]

\* Scanner::is_at_end
Scanner_is_at_end(sc) == sc.current >= source_len(sc.source)

\* source.chars().nth(i) is None, so that its unwrap panics
nth_is_none(sc, i) == i >= Len(sc.source)

\* source.chars().nth(i).unwrap()
nth(sc, i) == sc.source[i + 1]

\* Scanner::peek panics
Scanner_peek_panics(sc) == ~Scanner_is_at_end(sc) /\ nth_is_none(sc, sc.current)

\* Scanner::peek; "NUL" stands for '\0'
Scanner_peek(sc) == IF Scanner_is_at_end(sc) THEN "NUL" ELSE nth(sc, sc.current)

\* Scanner::peek_next panics
Scanner_peek_next_panics(sc) ==
    ~(sc.current + 1 > source_len(sc.source)) /\ nth_is_none(sc, sc.current + 1)

\* Scanner::peek_next
Scanner_peek_next(sc) ==
    IF sc.current + 1 > source_len(sc.source) THEN "NUL" ELSE nth(sc, sc.current + 1)

\* Scanner::advance, the move of the cursor
Scanner_advance(sc) ==
    IF nth_is_none(sc, sc.current) THEN Scanner_panic(sc)
    ELSE [sc EXCEPT !.current = @ + 1]

\* Scanner::match_char matches
Scanner_match_char(sc, expected) ==
    ~Scanner_is_at_end(sc) /\ ~nth_is_none(sc, sc.current) /\ nth(sc, sc.current) = expected

\* Scanner::match_char panics
Scanner_match_char_panics(sc) == ~Scanner_is_at_end(sc) /\ nth_is_none(sc, sc.current)

\* Scanner::add_token_total
Scanner_add_token_total(sc, token_type, literal) ==
    IF slice_panics(sc.source, sc.start, sc.current) THEN Scanner_panic(sc)
    ELSE [sc EXCEPT !.tokens = Append(@, [token_type |-> token_type,
                                           lexeme |-> slice(sc.source, sc.start, sc.current),
                                           literal |-> literal,
                                           line |-> sc.line])]

\* Scanner::add_token
Scanner_add_token(sc, token_type) == Scanner_add_token_total(sc, token_type, Nil)

\* the token of one or, when doubled, two characters
Scanner_add_doubled(sc, expected, double, single) ==
    IF Scanner_match_char_panics(sc) THEN Scanner_panic(sc)
    ELSE IF Scanner_match_char(sc, expected)
         THEN Scanner_add_token([sc EXCEPT !.current = @ + 1], double)
         ELSE Scanner_add_token(sc, single)

RECURSIVE Scanner_comment(_)
\* the loop of scan_token over a comment, up to the end of the line
Scanner_comment(sc) ==
    IF sc.panicked THEN sc
    ELSE IF Scanner_peek_panics(sc) THEN Scanner_panic(sc)
    ELSE IF Scanner_peek(sc) # "\n" /\ ~Scanner_is_at_end(sc)
         THEN Scanner_comment(Scanner_advance(sc))
         ELSE sc

RECURSIVE Scanner_digits(_)
\* while is_digit(self.peek()) { self.advance(); }
Scanner_digits(sc) ==
    IF sc.panicked THEN sc
    ELSE IF Scanner_peek_panics(sc) THEN Scanner_panic(sc)
    ELSE IF is_digit(Scanner_peek(sc)) THEN Scanner_digits(Scanner_advance(sc))
    ELSE sc

\* Scanner::number: the fraction, after the integral digits.  The literal
\* is the parse of the lexeme; Nil stands for it, the value is not modelled.
Scanner_fraction(sc) ==
    IF sc.panicked THEN sc
    ELSE IF Scanner_peek_panics(sc) THEN Scanner_panic(sc)
    ELSE IF Scanner_peek(sc) # "." THEN Scanner_add_token_total(sc, "Number", Nil)
    ELSE IF Scanner_peek_next_panics(sc) THEN Scanner_panic(sc)
    ELSE IF is_digit(Scanner_peek_next(sc))
         THEN Scanner_add_token_total(Scanner_digits(Scanner_advance(sc)), "Number", Nil)
         ELSE Scanner_add_token_total(sc, "Number", Nil)

\* Scanner::number
Scanner_number(sc) == Scanner_fraction(Scanner_digits(sc))

RECURSIVE Scanner_alpha_numerics(_)
\* while is_alpha_numeric(self.peek()) { self.advance(); }
Scanner_alpha_numerics(sc) ==
    IF sc.panicked THEN sc
    ELSE IF Scanner_peek_panics(sc) THEN Scanner_panic(sc)
    ELSE IF is_alpha_numeric(Scanner_peek(sc))
         THEN Scanner_alpha_numerics(Scanner_advance(sc))
         ELSE sc

\* Scanner::identifier: the token, after the loop
Scanner_keyword(sc) ==
    IF sc.panicked THEN sc
    ELSE IF slice_panics(sc.source, sc.start, sc.current) THEN Scanner_panic(sc)
    ELSE IF slice(sc.source, sc.start, sc.current) \in DOMAIN KEYWORDS
         THEN Scanner_add_token(sc, KEYWORDS[slice(sc.source, sc.start, sc.current)])
         ELSE Scanner_add_token(sc, "Identifier")

\* Scanner::identifier
Scanner_identifier(sc) == Scanner_keyword(Scanner_alpha_numerics(sc))

RECURSIVE Scanner_string_loop(_)
\* the loop of Scanner::string, up to the closing quote or the end
Scanner_string_loop(sc) ==
    IF sc.panicked THEN sc
    ELSE IF Scanner_peek_panics(sc) THEN Scanner_panic(sc)
    ELSE IF Scanner_peek(sc) # "\"" /\ ~Scanner_is_at_end(sc)
         THEN Scanner_string_loop(Scanner_advance(
                  IF Scanner_peek(sc) = "\n" THEN [sc EXCEPT !.line = @ + 1] ELSE sc))
         ELSE sc

\* Scanner::string: the token, after the closing quote
Scanner_string_token(sc) ==
    IF sc.panicked THEN sc
    ELSE IF slice_panics(sc.source, sc.start + 1, sc.current - 1) THEN Scanner_panic(sc)
    ELSE Scanner_add_token_total(sc, "String",
                                 Str(slice(sc.source, sc.start + 1, sc.current - 1)))

\* Scanner::string fails: the end is reached before the closing quote
Scanner_unterminated(sc) == ~sc.panicked /\ Scanner_is_at_end(sc)

\* Scanner::string: after the loop
Scanner_string_close(sc) ==
    IF sc.panicked \/ Scanner_is_at_end(sc) THEN sc
    ELSE Scanner_string_token(Scanner_advance(sc))

\* Scanner::string
Scanner_string(sc) == Scanner_string_close(Scanner_string_loop(sc))

\* the single-character tokens of scan_token
SingleCharTokens ==
    [c \in {"(", ")", "{", "}", ",", ".", "-", "+", ";", "*"} |->
        CASE c = "(" -> "LeftParen" [] c = ")" -> "RightParen"
          [] c = "{" -> "LeftBrace" [] c = "}" -> "RightBrace"
          [] c = "," -> "Comma" [] c = "." -> "Dot" [] c = "-" -> "Minus"
          [] c = "+" -> "Plus" [] c = ";" -> "SemiColon" [] c = "*" -> "Star"]

\* Scanner::scan_token returns Err, for sc after the advance that returned c
Scanner_match_err(sc, c) ==
    \/ c = "\"" /\ Scanner_unterminated(Scanner_string_loop(sc))
    \/ /\ c \notin DOMAIN SingleCharTokens
       /\ c \notin {"!", "=", "<", ">", "/", " ", "\r", "\t", "\n", "\""}
       /\ ~is_digit(c)
       /\ ~is_alpha(c)

\* the message of that Err
Scanner_match_msg(c) ==
    IF c = "\"" THEN "Unterminated string." ELSE "Unexpected character."

\* Scanner::scan_token: the match on c, the character advance returned
Scanner_match(sc, c) ==
    IF sc.panicked THEN sc
    ELSE IF c \in DOMAIN SingleCharTokens THEN Scanner_add_token(sc, SingleCharTokens[c])
    ELSE IF c = "!" THEN Scanner_add_doubled(sc, "=", "BangEqual", "Bang")
    ELSE IF c = "=" THEN Scanner_add_doubled(sc, "=", "EqualEqual", "Equal")
    ELSE IF c = "<" THEN Scanner_add_doubled(sc, "=", "LessEqual", "Less")
    ELSE IF c = ">" THEN Scanner_add_doubled(sc, "=", "GreaterEqual", "Greater")
    ELSE IF c = "/"
         THEN IF Scanner_match_char_panics(sc) THEN Scanner_panic(sc)
              ELSE IF Scanner_match_char(sc, "/")
                   THEN Scanner_comment([sc EXCEPT !.current = @ + 1])
                   ELSE Scanner_add_token(sc, "Slash")
    ELSE IF c \in {" ", "\r", "\t"} THEN sc
    ELSE IF c = "\n" THEN [sc EXCEPT !.line = @ + 1]
    ELSE IF c = "\"" THEN Scanner_string(sc)
    ELSE IF is_digit(c) THEN Scanner_number(sc)
    ELSE IF is_alpha(c) THEN Scanner_identifier(sc)
    ELSE sc

\* Scanner::scan_token, with self.start = self.current of the loop of scan_tokens
Scanner_scan_token(sc) ==
    IF nth_is_none(sc, sc.current) THEN Scanner_panic(sc)
    ELSE Scanner_match(Scanner_advance([sc EXCEPT !.start = sc.current]),
                       nth(sc, sc.current))

\* Scanner::scan_token returns Err
Scanner_scan_token_err(sc) ==
    /\ ~nth_is_none(sc, sc.current)
    /\ Scanner_match_err(Scanner_advance([sc EXCEPT !.start = sc.current]),
                         nth(sc, sc.current))

\* the message of that Err
Scanner_scan_token_msg(sc) == Scanner_match_msg(nth(sc, sc.current))

RECURSIVE Sources(_)
\* the sources of at most n characters
Sources(n) ==
    IF n = 0 THEN {<<>>}
    ELSE Sources(n - 1) \cup {Append(s, c) : s \in Sources(n - 1), c \in Chars}

InitScan ==
    /\ envs = <<>>
    /\ calls = <<>>
    /\ classes = <<>>
    /\ insts = <<>>
    /\ log = <<>>
    /\ prog = <<>>
    /\ suite = 0
    /\ status = "scanning"
    /\ err = ""
    /\ last \in {Scanner_new(source) : source \in Sources(MaxSource)}

\* the state after an iteration of the loop of scan_tokens that left sc
Scanner_state(sc, failed, msg) ==
    /\ last' = sc
    /\ status' = IF sc.panicked THEN "panic" ELSE IF failed THEN "error" ELSE "scanning"
    /\ err' = IF ~sc.panicked /\ failed THEN msg ELSE ""

\* one iteration of the loop of Scanner::scan_tokens
ScanToken ==
    /\ status = "scanning"
    /\ ~Scanner_is_at_end(last)
    /\ Scanner_state(Scanner_scan_token(last), Scanner_scan_token_err(last),
                     IF Scanner_scan_token_err(last) THEN Scanner_scan_token_msg(last)
                     ELSE "")
    /\ UNCHANGED <<envs, calls, classes, insts, log, prog, suite>>

\* the end of Scanner::scan_tokens: the EOF token and Ok
ScanEnd ==
    /\ status = "scanning"
    /\ Scanner_is_at_end(last)
    /\ last' = [last EXCEPT !.tokens = Append(@, [token_type |-> "EOF", lexeme |-> "",
                                                   literal |-> Nil, line |-> last.line])]
    /\ status' = "ok"
    /\ err' = ""
    /\ UNCHANGED <<envs, calls, classes, insts, log, prog, suite>>

NextScan == ScanToken \/ ScanEnd

SpecScan == InitScan /\ [][NextScan]_vars

\* the number of newline characters among the first n characters of source
Newlines(source, n) == Cardinality({k \in 1..n : source[k] = "\n"})

\* the EOF tokens of a token sequence
EofTokens(tokens) == {j \in 1..Len(tokens) : tokens[j].token_type = "EOF"}

\* C21: for every source string, scan_tokens returns either an error with a
\* line and a message or a token sequence with exactly one Eof token, placed
\* last (it never fails in another way); the line of each token is 1 plus
\* the number of newline characters consumed before the token was emitted.
C21_ScanTokensResult ==
    [][/\ status' \in {"scanning", "ok", "error"}
       /\ status' = "ok" => EofTokens(last'.tokens) = {Len(last'.tokens)}
       /\ status' = "error" =>
              /\ err' \in {"Unexpected character.", "Unterminated string."}
              /\ last'.line = 1 + Newlines(last'.source, last'.current)
       /\ \A j \in (Len(last.tokens) + 1)..Len(last'.tokens) :
              last'.tokens[j].line = 1 + Newlines(last'.source, last'.current)]_vars

\* source starts with n digits followed by a `.` that is the last character
\* or is followed by a character that is not a digit
DigitsThenDot(source, n) ==
    /\ n >= 1
    /\ Len(source) >= n + 1
    /\ \A k \in 1..n : is_digit(source[k])
    /\ source[n + 1] = "."
    /\ Len(source) >= n + 2 => ~is_digit(source[n + 2])

\* C26: when a run of digits is followed by a `.` that is not followed by a
\* digit, also when the `.` is the last character of the source, the scanner
\* emits a Number token for the digits and then a separate Dot token, without
\* failing: the first iteration ends with the Number token, the second with
\* the Dot token.
C26_TrailingDotNotConsumed ==
    \A n \in 1..Len(last.source) :
        (DigitsThenDot(last.source, n) /\ last.current > 0) =>
            /\ Len(last.tokens) < 2 => status # "panic"
            /\ Len(last.tokens) >= 1
            /\ last.tokens[1].token_type = "Number"
            /\ last.tokens[1].lexeme = concat(SubSeq(last.source, 1, n))
            /\ last.current > n =>
                   /\ Len(last.tokens) >= 2
                   /\ last.tokens[2].token_type = "Dot"
                   /\ last.tokens[2].lexeme = "."

\* C24: every invocation of a user function runs in a new environment whose
\* enclosing environment is the function's closure: a statement that calls
\* functions changes no binding of the closure environment of any function
\* that existed before it; the local `loc` that the invocation g(1) declared
\* is not visible to the later invocation g(0), which fails with
\* "Undefined variable 'loc'."; the recursive call r(1) leaves the n of the
\* pending r(2) unchanged, which returns 2; and the parameter n is not
\* visible to the caller.
C24_InvocationEnvironment ==
    [][(suite = 12 /\ prog' # prog) =>
          /\ \A c \in 1..Len(calls) :
                 envs'[calls[c].environment].values = envs[calls[c].environment].values
          /\ prog'[Len(prog')] = 1 =>
                 (status' = "running" /\ log'[Len(log')].e = "print"
                                      /\ log'[Len(log')].t = "1")
          /\ prog'[Len(prog')] = 2 =>
                 (status' = "error" /\ err' = "Undefined variable 'loc'.")
          /\ prog'[Len(prog')] = 3 =>
                 (status' = "running" /\ log'[Len(log')].e = "print"
                                      /\ log'[Len(log')].t = "2")
          /\ prog'[Len(prog')] = 4 =>
                 (status' = "error" /\ err' = "Undefined variable 'n'.")]_vars

\* the print events among the events of lg after the first n
PrintEventsAfter(lg, n) ==
    SelectSeq(SubSeq(lg, n + 1, Len(lg)), LAMBDA ev : ev.e = "print")

\* the values they printed, in order
PrintedAfter(lg, n) ==
    [j \in 1..Len(PrintEventsAfter(lg, n)) |-> PrintEventsAfter(lg, n)[j].v]

\* C25: a call evaluates the callee, requires it to be a callable or a
\* class, evaluates the arguments left to right, enforces the arity, invokes.
\* Hence `nil(one(), two());` and `"s"(one());` fail with "Can only call
\* functions and classes." before one or two ran (they print their name);
\* `unary(one(), two());` fails with "Expected 1 arguments but got 2." after
\* one and two ran once each, in this order, and without running unary; and
\* `print unary(two());` runs two, then unary, then prints 2.
C25_CallOrder ==
    [][(suite = 13 /\ prog' # prog) =>
          /\ prog'[Len(prog')] \in {1, 2} =>
                 /\ status' = "error"
                 /\ err' = "Can only call functions and classes."
                 /\ PrintedAfter(log', Len(log)) = <<>>
          /\ prog'[Len(prog')] = 3 =>
                 /\ status' = "error"
                 /\ err' = "Expected 1 arguments but got 2."
                 /\ PrintedAfter(log', Len(log)) = <<Str("one"), Str("two")>>
          /\ prog'[Len(prog')] = 4 =>
                 /\ status' = "running"
                 /\ PrintedAfter(log', Len(log)) = <<Str("two"), Str("unary"), Number(2)>>
          /\ prog'[Len(prog')] = 5 =>
                 /\ status' = "error"
                 /\ err' = "Expected 1 arguments but got 0."
                 /\ PrintedAfter(log', Len(log)) = <<>>]_vars

\* the number of statements `print f1();` (i = 1) or `print f2();` (i = 2)
\* in the program
CallsInProg(i) == Cardinality({j \in 1..Len(prog) : prog[j] = i})

\* C30: closures produced by separate calls of the same enclosing function
\* have independent captured state: with f1 and f2 obtained from two calls of
\* the counter factory mk, in any interleaving of calls the k-th call of f1
\* returns k and the k-th call of f2 returns k.
C30_IndependentClosures ==
    (suite = 14 /\ prog # <<>>) =>
        /\ status # "error"
        /\ LastPrinted(ToString(CallsInProg(prog[Len(prog)])))

\* f1 was called twice, then f2 once, then f1 again: it returns 3
C30_Witness == Ran(14, <<1, 1, 2, 1>>) /\ LastPrinted("3")

(***************************************************************************)
(* parser.rs.  A token is its TokenType; every Identifier has the lexeme   *)
(* a, every Number the literal 1 and every String the literal "s".  In     *)
(* SpecParse the variable last holds the Parser struct, with the           *)
(* statements and errors of Parser::parse and a field panicked that is set *)
(* when an index of the token vector is out of bounds.  A parsing function *)
(* yields a record: the parser after it, and Ok(node) or Err((msg, token)),*)
(* the token being its position in the token vector.                       *)
(***************************************************************************)
MaxTokens == 4

\* Parser::new, with the locals of Parser::parse
Parser_new(tokens) ==
    [tokens |-> tokens, current |-> 0, in_a_class |-> FALSE, panicked |-> FALSE,
     statements |-> <<>>, errors |-> <<>>]

POk(ps, node) == [ps |-> ps, ok |-> TRUE, node |-> node, msg |-> "", token |-> 0]

PErr(ps, msg, token) == [ps |-> ps, ok |-> FALSE, node |-> NoOp, msg |-> msg, token |-> token]

\* the `?` after a consume, and the node built when it succeeded
POkThen(c, node) == IF c.ok THEN POk(c.ps, node) ELSE c

\* an absent optional clause
NoneNode == [k |-> "None"]

\* a function declaration as the parser builds it
FunctionDecl(name, params, body) ==
    [k |-> "Function", name |-> name, params |-> params, body |-> body]

\* Parser::peek
Parser_peek(ps) == ps.tokens[ps.current + 1]

\* Parser::previous
Parser_previous(ps) == ps.tokens[ps.current]

\* Parser::is_at_end
Parser_is_at_end(ps) == Parser_peek(ps) = "EOF"

\* Parser::check
Parser_check(ps, ttype) == ~Parser_is_at_end(ps) /\ Parser_peek(ps) = ttype

\* Parser::advance; its call of previous panics when the cursor is 0
Parser_advance(ps) ==
    IF ~Parser_is_at_end(ps) THEN [ps EXCEPT !.current = @ + 1]
    ELSE IF ps.current = 0 THEN [ps EXCEPT !.panicked = TRUE]
    ELSE ps

\* Parser::matching returns true
Parser_matching(ps, types) == \E ttype \in types : Parser_check(ps, ttype)

\* Parser::consume
Parser_consume(ps, ttype, msg) ==
    IF Parser_check(ps, ttype) THEN POk(Parser_advance(ps), NoOp)
    ELSE PErr(ps, msg, ps.current + 1)

RECURSIVE Parser_synchronize_loop(_)
\* the loop of Parser::synchronize; its call of previous panics when the
\* cursor is 0
Parser_synchronize_loop(ps) ==
    IF ps.panicked \/ Parser_is_at_end(ps) THEN ps
    ELSE IF ps.current = 0 THEN [ps EXCEPT !.panicked = TRUE]
    ELSE IF Parser_previous(ps) = "SemiColon" THEN ps
    ELSE IF Parser_peek(ps) \in {"Class", "For", "Fun", "If", "Print", "Return", "Var",
                                 "While"}
         THEN ps
         ELSE Parser_synchronize_loop(Parser_advance(ps))

\* a synchronize that does not advance before its loop
Parser_synchronize_in_place(ps) == Parser_synchronize_loop(ps)

\* Parser::synchronize
Parser_synchronize(ps) == Parser_synchronize_loop(Parser_advance(ps))

RECURSIVE Parser_expression(_), Parser_assignment(_), Parser_binary(_, _),
          Parser_binary_loop(_, _), Parser_unary(_), Parser_call(_), Parser_call_loop(_),
          Parser_finish_call(_, _), Parser_finish_call_arguments(_, _, _),
          Parser_primary(_), Parser_statement(_), Parser_declaration(_),
          Parser_block(_, _), Parser_function(_, _), Parser_class_methods(_, _),
          Parser_var_declaration(_), Parser_expression_statement(_)

\* Parser::primary: the closing parenthesis of a grouping
Parser_primary_grouping(expression) ==
    IF ~expression.ok THEN expression
    ELSE POkThen(Parser_consume(expression.ps, "RightParen",
                                "Expect ')' after expression."),
                 Grouping(expression.node))

\* Parser::primary
Parser_primary(ps) ==
    IF Parser_check(ps, "False") THEN POk(Parser_advance(ps), Literal(Bool(FALSE)))
    ELSE IF Parser_check(ps, "True") THEN POk(Parser_advance(ps), Literal(Bool(TRUE)))
    ELSE IF Parser_check(ps, "Nil") THEN POk(Parser_advance(ps), Literal(Nil))
    ELSE IF Parser_check(ps, "String") THEN POk(Parser_advance(ps), StrLit("s"))
    ELSE IF Parser_check(ps, "Number") THEN POk(Parser_advance(ps), Num(1))
    ELSE IF Parser_check(ps, "This")
         THEN IF ps.in_a_class THEN POk(Parser_advance(ps), This)
              ELSE PErr(Parser_advance(ps), "Can't use 'this' outside of a class",
                        Parser_advance(ps).current + 1)
    ELSE IF Parser_check(ps, "Identifier") THEN POk(Parser_advance(ps), Variable("a"))
    ELSE IF Parser_check(ps, "LeftParen")
         THEN Parser_primary_grouping(Parser_expression(Parser_advance(ps)))
    ELSE POk(ps, NoOp)

\* Parser::finish_call: the closing parenthesis
Parser_finish_call_paren(ps, callee, arguments) ==
    POkThen(Parser_consume(ps, "RightParen", "Expect ')' after arguments."),
            Call(callee, arguments))

\* Parser::finish_call: the argument loop, given the argument parsed last
Parser_finish_call_arguments(argument, callee, arguments) ==
    IF ~argument.ok THEN argument
    ELSE IF Parser_check(argument.ps, "Comma")
         THEN IF Len(arguments) + 1 >= 255
              THEN PErr(Parser_advance(argument.ps), "Can't have more than 255 arguments",
                        Parser_advance(argument.ps).current + 1)
              ELSE Parser_finish_call_arguments(
                       Parser_expression(Parser_advance(argument.ps)), callee,
                       Append(arguments, argument.node))
         ELSE Parser_finish_call_paren(argument.ps, callee,
                                       Append(arguments, argument.node))

\* Parser::finish_call
Parser_finish_call(ps, callee) ==
    IF Parser_check(ps, "RightParen") THEN Parser_finish_call_paren(ps, callee, <<>>)
    ELSE Parser_finish_call_arguments(Parser_expression(ps), callee, <<>>)

\* Parser::call: the property name after a dot
Parser_call_get(name, object) == POkThen(name, Get(object, "a"))

\* the loop of Parser::call
Parser_call_loop(expr) ==
    IF ~expr.ok THEN expr
    ELSE IF Parser_check(expr.ps, "LeftParen")
         THEN Parser_call_loop(Parser_finish_call(Parser_advance(expr.ps), expr.node))
    ELSE IF Parser_check(expr.ps, "Dot")
         THEN Parser_call_loop(Parser_call_get(
                  Parser_consume(Parser_advance(expr.ps), "Identifier",
                                 "Expect property  name after '.'."),
                  expr.node))
    ELSE expr

\* Parser::call
Parser_call(ps) == Parser_call_loop(Parser_primary(ps))

\* Parser::unary: the node, given the operand
Parser_unary_node(operator, right) == POkThen(right, Unary(operator, right.node))

\* Parser::unary
Parser_unary(ps) ==
    IF Parser_matching(ps, {"Minus", "Bang"})
    THEN Parser_unary_node(Parser_peek(ps), Parser_unary(Parser_advance(ps)))
    ELSE Parser_call(ps)

\* the operators of or, and, equality, comparison, term and factor
BinaryTypes ==
    <<{"Or"}, {"And"}, {"BangEqual", "EqualEqual"},
      {"Greater", "GreaterEqual", "Less", "LessEqual"}, {"Minus", "Plus"},
      {"Slash", "Star"}>>

\* the operand of the level-th of them: the next level, or unary for factor
Parser_binary_operand(level, ps) ==
    IF level = Len(BinaryTypes) THEN Parser_unary(ps) ELSE Parser_binary(level + 1, ps)

\* the node of a binary operator, given its right operand
Parser_binary_node(level, left, operator, right) ==
    POkThen(right, IF level <= 2 THEN Logical(left, operator, right.node)
                   ELSE Binary(left, operator, right.node))

\* the loop of Parser::or, and, equality, comparison, term, factor
Parser_binary_loop(level, expr) ==
    IF ~expr.ok THEN expr
    ELSE IF Parser_matching(expr.ps, BinaryTypes[level])
         THEN Parser_binary_loop(level,
                  Parser_binary_node(level, expr.node, Parser_peek(expr.ps),
                      Parser_binary_operand(level, Parser_advance(expr.ps))))
         ELSE expr

\* Parser::or (level 1), and, equality, comparison, term, factor (level 6)
Parser_binary(level, ps) == Parser_binary_loop(level, Parser_binary_operand(level, ps))

\* Parser::assignment: the match on the kind of the left-hand side, given the
\* value; equals is the position of the `=` token
Parser_assignment_target(expr, equals, value) ==
    IF ~value.ok THEN value
    ELSE IF expr.k = "Variable" THEN POk(value.ps, Assign(expr.name, value.node))
    ELSE IF expr.k = "Get" THEN POk(value.ps, Set(expr.object, expr.name, value.node))
    ELSE PErr(value.ps, "Invalid assignment target.", equals)

\* Parser::assignment, given the left-hand side
Parser_assignment_equal(expr) ==
    IF ~expr.ok THEN expr
    ELSE IF Parser_matching(expr.ps, {"Equal"})
         THEN Parser_assignment_target(expr.node, expr.ps.current + 1,
                                       Parser_assignment(Parser_advance(expr.ps)))
         ELSE expr

\* Parser::assignment
Parser_assignment(ps) == Parser_assignment_equal(Parser_binary(1, ps))

\* Parser::expression
Parser_expression(ps) == Parser_assignment(ps)

\* Parser::expression_statement: the semicolon
Parser_expression_semicolon(expression) ==
    IF ~expression.ok THEN expression
    ELSE POkThen(Parser_consume(expression.ps, "SemiColon",
                                "Expect ';' after expression."),
                 Expression(expression.node))

\* Parser::expression_statement
Parser_expression_statement(ps) == Parser_expression_semicolon(Parser_expression(ps))

\* Parser::print_statement: the semicolon
Parser_print_semicolon(expression) ==
    IF ~expression.ok THEN expression
    ELSE POkThen(Parser_consume(expression.ps, "SemiColon",
                                "Expect ';' after expression."),
                 PrintStmt(expression.node))

\* Parser::print_statement
Parser_print_statement(ps) == Parser_print_semicolon(Parser_expression(ps))

\* Parser::return_statement: the semicolon
Parser_return_semicolon(value) ==
    IF ~value.ok THEN value
    ELSE POkThen(Parser_consume(value.ps, "SemiColon", "Expect ';' after return value."),
                 ReturnStmt(value.node))

\* Parser::return_statement
Parser_return_statement(ps) ==
    IF ~Parser_check(ps, "SemiColon") THEN Parser_return_semicolon(Parser_expression(ps))
    ELSE Parser_return_semicolon(POk(ps, NoOp))

\* Parser::var_declaration: the semicolon
Parser_var_semicolon(initializer) ==
    IF ~initializer.ok THEN initializer
    ELSE POkThen(Parser_consume(initializer.ps, "SemiColon",
                                "Expect ';' after var declaration."),
                 Var("a", initializer.node))

\* Parser::var_declaration: the initializer, given the name
Parser_var_initializer(name) ==
    IF ~name.ok THEN name
    ELSE IF Parser_matching(name.ps, {"Equal"})
         THEN Parser_var_semicolon(Parser_expression(Parser_advance(name.ps)))
         ELSE Parser_var_semicolon(POk(name.ps, NoOp))

\* Parser::var_declaration
Parser_var_declaration(ps) ==
    Parser_var_initializer(Parser_consume(ps, "Identifier", "Expect variable name."))

\* Parser::while_statement: the node
Parser_while_node(condition, body) == POkThen(body, While(condition, body.node))

\* Parser::while_statement: the body
Parser_while_body(condition, paren) ==
    IF ~paren.ok THEN paren
    ELSE Parser_while_node(condition, Parser_statement(paren.ps))

\* Parser::while_statement: the closing parenthesis
Parser_while_paren(condition) ==
    IF ~condition.ok THEN condition
    ELSE Parser_while_body(condition.node,
                           Parser_consume(condition.ps, "RightParen",
                                          "Expect ')' after condition."))

\* Parser::while_statement: the condition
Parser_while_condition(paren) ==
    IF ~paren.ok THEN paren ELSE Parser_while_paren(Parser_expression(paren.ps))

\* Parser::while_statement
Parser_while_statement(ps) ==
    Parser_while_condition(Parser_consume(ps, "LeftParen", "Expect '(' after while."))

\* Parser::if_statement: the node with an else branch
Parser_if_node(condition, then_branch, else_branch) ==
    POkThen(else_branch, IfElse(condition, then_branch, else_branch.node))

\* Parser::if_statement: the else branch
Parser_if_else(condition, then_branch) ==
    IF ~then_branch.ok THEN then_branch
    ELSE IF Parser_matching(then_branch.ps, {"Else"})
         THEN Parser_if_node(condition, then_branch.node,
                             Parser_statement(Parser_advance(then_branch.ps)))
         ELSE POk(then_branch.ps, If(condition, then_branch.node))

\* Parser::if_statement: the then branch
Parser_if_then(condition, paren) ==
    IF ~paren.ok THEN paren
    ELSE Parser_if_else(condition, Parser_statement(paren.ps))

\* Parser::if_statement: the closing parenthesis
Parser_if_paren(condition) ==
    IF ~condition.ok THEN condition
    ELSE Parser_if_then(condition.node,
                        Parser_consume(condition.ps, "RightParen",
                                       "Expect ')' after if condition."))

\* Parser::if_statement: the condition
Parser_if_condition(paren) ==
    IF ~paren.ok THEN paren ELSE Parser_if_paren(Parser_expression(paren.ps))

\* Parser::if_statement
Parser_if_statement(ps) ==
    Parser_if_condition(Parser_consume(ps, "LeftParen", "Expect '(' after 'if'."))

\* Parser::for_statement: the loop the clauses are rewritten to
For_desugar(initializer, condition, increment, body) ==
    IF initializer = NoneNode
    THEN While(IF condition = NoneNode THEN Literal(Bool(TRUE)) ELSE condition,
               IF increment = NoneNode THEN body
               ELSE Block(<<body, Expression(increment)>>))
    ELSE Block(<<initializer,
                 While(IF condition = NoneNode THEN Literal(Bool(TRUE)) ELSE condition,
                       IF increment = NoneNode THEN body
                       ELSE Block(<<body, Expression(increment)>>))>>)

\* Parser::for_statement: the node
Parser_for_node(initializer, condition, increment, body) ==
    POkThen(body, For_desugar(initializer, condition, increment, body.node))

\* Parser::for_statement: the body
Parser_for_body(initializer, condition, increment, paren) ==
    IF ~paren.ok THEN paren
    ELSE Parser_for_node(initializer, condition, increment, Parser_statement(paren.ps))

\* Parser::for_statement: the closing parenthesis
Parser_for_paren(initializer, condition, increment) ==
    IF ~increment.ok THEN increment
    ELSE Parser_for_body(initializer, condition, increment.node,
                         Parser_consume(increment.ps, "RightParen",
                                        "Expect ')' after for clauses."))

\* Parser::for_statement: the increment
Parser_for_increment(initializer, condition, semicolon) ==
    IF ~semicolon.ok THEN semicolon
    ELSE IF ~Parser_check(semicolon.ps, "RightParen")
         THEN Parser_for_paren(initializer, condition, Parser_expression(semicolon.ps))
         ELSE Parser_for_paren(initializer, condition, POk(semicolon.ps, NoneNode))

\* Parser::for_statement: the semicolon after the condition
Parser_for_semicolon(initializer, condition) ==
    IF ~condition.ok THEN condition
    ELSE Parser_for_increment(initializer, condition.node,
                              Parser_consume(condition.ps, "SemiColon",
                                             "Expect ';' after loop condition."))

\* Parser::for_statement: the condition
Parser_for_condition(initializer) ==
    IF ~initializer.ok THEN initializer
    ELSE IF ~Parser_check(initializer.ps, "SemiColon")
         THEN Parser_for_semicolon(initializer.node, Parser_expression(initializer.ps))
         ELSE Parser_for_semicolon(initializer.node, POk(initializer.ps, NoneNode))

\* Parser::for_statement: the initializer
Parser_for_initializer(paren) ==
    IF ~paren.ok THEN paren
    ELSE IF Parser_matching(paren.ps, {"SemiColon"})
         THEN Parser_for_condition(POk(Parser_advance(paren.ps), NoneNode))
    ELSE IF Parser_matching(paren.ps, {"Var"})
         THEN Parser_for_condition(Parser_var_declaration(Parser_advance(paren.ps)))
    ELSE Parser_for_condition(Parser_expression_statement(paren.ps))

\* Parser::for_statement
Parser_for_statement(ps) ==
    Parser_for_initializer(Parser_consume(ps, "LeftParen", "Expect '(' after 'for'."))

\* Parser::block: the push of a declaration
Parser_block_push(declaration, statements) ==
    IF ~declaration.ok THEN declaration
    ELSE Parser_block(declaration.ps, Append(statements, declaration.node))

\* Parser::block; the node is the vector of statements
Parser_block(ps, statements) ==
    IF ~Parser_check(ps, "RightBrace") /\ ~Parser_is_at_end(ps)
    THEN Parser_block_push(Parser_declaration(ps), statements)
    ELSE POkThen(Parser_consume(ps, "RightBrace", "Expect '}' after block."), statements)

\* Parser::statement: the Block of a block
Parser_statement_block(statements) == POkThen(statements, Block(statements.node))

\* Parser::statement
Parser_statement(ps) ==
    IF Parser_matching(ps, {"For"}) THEN Parser_for_statement(Parser_advance(ps))
    ELSE IF Parser_matching(ps, {"If"}) THEN Parser_if_statement(Parser_advance(ps))
    ELSE IF Parser_matching(ps, {"Print"}) THEN Parser_print_statement(Parser_advance(ps))
    ELSE IF Parser_matching(ps, {"Return"}) THEN Parser_return_statement(Parser_advance(ps))
    ELSE IF Parser_matching(ps, {"While"}) THEN Parser_while_statement(Parser_advance(ps))
    ELSE IF Parser_matching(ps, {"LeftBrace"})
         THEN Parser_statement_block(Parser_block(Parser_advance(ps), <<>>))
    ELSE Parser_expression_statement(ps)

\* Parser::function: the node, given the body
Parser_function_node(params, body) == POkThen(body, FunctionDecl("a", params, body.node))

\* Parser::function: the body, given the opening brace
Parser_function_body(params, brace) ==
    IF ~brace.ok THEN brace
    ELSE Parser_function_node(params, Parser_block(brace.ps, <<>>))

\* Parser::function: the opening brace, given the closing parenthesis
Parser_function_brace(kind, params, paren) ==
    IF ~paren.ok THEN paren
    ELSE Parser_function_body(params,
             Parser_consume(paren.ps, "LeftBrace",
                            "Expect '{' before " \o kind \o " body."))

\* Parser::function: the closing parenthesis
Parser_function_paren(kind, params, ps) ==
    Parser_function_brace(kind, params,
        Parser_consume(ps, "RightParen", "Expect ')' after parameters."))

RECURSIVE Parser_function_parameters(_, _, _)
\* Parser::function: the parameter loop, given the parameter parsed last
Parser_function_parameters(kind, params, parameter) ==
    IF ~parameter.ok THEN parameter
    ELSE IF Parser_matching(parameter.ps, {"Comma"})
         THEN IF Len(params) + 1 >= 255
              THEN PErr(Parser_advance(parameter.ps),
                        "Can't have more than 255 parameters.",
                        Parser_advance(parameter.ps).current + 1)
              ELSE Parser_function_parameters(kind, Append(params, "a"),
                       Parser_consume(Parser_advance(parameter.ps), "Identifier",
                                      "Expect parameter name."))
         ELSE Parser_function_paren(kind, Append(params, "a"), parameter.ps)

\* Parser::function: the parameters, given the opening parenthesis
Parser_function_open(kind, paren) ==
    IF ~paren.ok THEN paren
    ELSE IF ~Parser_check(paren.ps, "RightParen")
         THEN Parser_function_parameters(kind, <<>>,
                  Parser_consume(paren.ps, "Identifier", "Expect parameter name."))
         ELSE Parser_function_paren(kind, <<>>, paren.ps)

\* Parser::function: the opening parenthesis, given the name
Parser_function_name(kind, name) ==
    IF ~name.ok THEN name
    ELSE Parser_function_open(kind,
             Parser_consume(name.ps, "LeftParen",
                            "Expect '(' after " \o kind \o " name."))

\* Parser::function
Parser_function(ps, kind) ==
    Parser_function_name(kind,
        Parser_consume(ps, "Identifier", "Expect " \o kind \o " name."))

\* Parser::class_declaration: the end of the body
Parser_class_end(brace, methods) ==
    IF ~brace.ok THEN brace
    ELSE POk([brace.ps EXCEPT !.in_a_class = FALSE], ClassStmt("a", methods))

\* Parser::class_declaration: the push of a method
Parser_class_method(method, methods) ==
    IF ~method.ok THEN method
    ELSE Parser_class_methods(method.ps, Append(methods, method.node))

\* Parser::class_declaration: the method loop
Parser_class_methods(ps, methods) ==
    IF ~Parser_check(ps, "RightBrace") /\ ~Parser_is_at_end(ps)
    THEN Parser_class_method(Parser_function(ps, "method"), methods)
    ELSE Parser_class_end(Parser_consume(ps, "RightBrace", "Expect '}' after class body"),
                          methods)

\* Parser::class_declaration: the body, given the opening brace
Parser_class_body(brace) ==
    IF ~brace.ok THEN brace ELSE Parser_class_methods(brace.ps, <<>>)

\* Parser::class_declaration: the opening brace, given the name
Parser_class_name(name) ==
    IF ~name.ok THEN name
    ELSE Parser_class_body(Parser_consume(name.ps, "LeftBrace",
                                          "Expect '{' before class body"))

\* Parser::class_declaration
Parser_class_declaration(ps) ==
    Parser_class_name(Parser_consume([ps EXCEPT !.in_a_class = TRUE], "Identifier",
                                     "Expect class name."))

\* Parser::declaration: the match on the result of statement
Parser_declaration_match(statement) ==
    IF statement.ok THEN statement
    ELSE [statement EXCEPT !.ps = Parser_synchronize(statement.ps)]

\* Parser::declaration
Parser_declaration(ps) ==
    IF Parser_matching(ps, {"Class"}) THEN Parser_class_declaration(Parser_advance(ps))
    ELSE IF Parser_matching(ps, {"Fun"}) THEN Parser_function(Parser_advance(ps), "function")
    ELSE IF Parser_matching(ps, {"Var"}) THEN Parser_var_declaration(Parser_advance(ps))
    ELSE Parser_declaration_match(Parser_statement(ps))

\* the token types of the sequences parsed: those of declarations and
\* simple statements, and those of expressions and control flow
TokenTypes ==
    <<{"Class", "Fun", "Var", "Print", "Return", "This", "Identifier", "Number",
       "SemiColon", "LeftBrace", "RightBrace", "Equal"},
      {"If", "Else", "While", "For", "LeftParen", "RightParen", "Identifier", "Number",
       "Equal", "Dot", "SemiColon", "Minus"}>>

RECURSIVE TokenSeqs(_, _)
\* the sequences of at most n tokens of the given types
TokenSeqs(types, n) ==
    IF n = 0 THEN {<<>>}
    ELSE TokenSeqs(types, n - 1)
         \cup {Append(s, t) : s \in TokenSeqs(types, n - 1), t \in types}

\* Parser::new on a token sequence that ends with its only EOF token
InitParse ==
    /\ envs = <<>>
    /\ calls = <<>>
    /\ classes = <<>>
    /\ insts = <<>>
    /\ log = <<>>
    /\ prog = <<>>
    /\ suite \in 1..Len(TokenTypes)
    /\ status = "parsing"
    /\ err = ""
    /\ last \in {Parser_new(Append(s, "EOF")) : s \in TokenSeqs(TokenTypes[suite], MaxTokens)}

\* the match of Parser::parse on the result of declaration
Parser_parse_match(declaration) ==
    IF declaration.ok
    THEN [declaration.ps EXCEPT !.statements = Append(@, declaration.node)]
    ELSE [declaration.ps EXCEPT
              !.errors = Append(@, [token |-> declaration.token, msg |-> declaration.msg])]

\* one iteration of the loop of Parser::parse
ParseDeclaration ==
    /\ status = "parsing"
    /\ ~Parser_is_at_end(last)
    /\ last' = Parser_parse_match(Parser_declaration(last))
    /\ status' = IF last'.panicked THEN "panic" ELSE "parsing"
    /\ err' = ""
    /\ UNCHANGED <<envs, calls, classes, insts, log, prog, suite>>

\* the end of Parser::parse
ParseEnd ==
    /\ status = "parsing"
    /\ Parser_is_at_end(last)
    /\ status' = "parsed"
    /\ UNCHANGED <<envs, calls, classes, insts, log, prog, suite, err, last>>

\* Parser::assignment applied to a fresh parser; the state keeps the parser
\* it leaves, with its node or its error
ParseAssignment ==
    /\ status = "parsing"
    /\ last.current = 0
    /\ last' = Parser_parse_match(Parser_assignment(last))
    /\ status' = IF last'.panicked THEN "panic"
                 ELSE IF last'.errors = <<>> THEN "assignment" ELSE "assignment error"
    /\ err' = IF last'.errors = <<>> THEN "" ELSE last'.errors[1].msg
    /\ UNCHANGED <<envs, calls, classes, insts, log, prog, suite>>

NextParse == ParseDeclaration \/ ParseEnd \/ ParseAssignment

SpecParse == InitParse /\ [][NextParse]_vars

\* the step is an iteration of the loop of Parser::parse
DeclarationStep ==
    /\ status = "parsing"
    /\ ~Parser_is_at_end(last)
    /\ status' \in {"parsing", "panic"}

\* the step is an iteration of the loop that recorded a parse error
DeclarationFailed == DeclarationStep /\ Len(last'.errors) > Len(last.errors)

\* the braces among the first n tokens are balanced: token n + 1 is lexically
\* inside no class body, function body or block
OutsideBraces(tokens, n) ==
    /\ Cardinality({j \in 1..n : tokens[j] = "LeftBrace"})
           = Cardinality({j \in 1..n : tokens[j] = "RightBrace"})
    /\ \A m \in 1..n :
           Cardinality({j \in 1..m : tokens[j] = "RightBrace"})
               <= Cardinality({j \in 1..m : tokens[j] = "LeftBrace"})

\* C22: a `this` token that is not lexically inside a class body makes parse
\* report a parse error, at any point of the token stream, also after an
\* earlier class declaration that succeeded or failed: an iteration of the
\* loop that starts outside every brace at `this`, or at `print this`,
\* records a parse error.
C22_ThisOutsideClass ==
    [][(/\ DeclarationStep
        /\ OutsideBraces(last.tokens, last.current)
        /\ \/ Parser_peek(last) = "This"
           \/ Parser_peek(last) = "Print" /\ last.tokens[last.current + 2] = "This")
       => DeclarationFailed]_vars

\* C23: a `return` statement at top level, outside every function body, is
\* reported as a parse error, so the program is not executed: an iteration of
\* the loop that starts outside every brace at `return` records a parse
\* error, and a parse that ends after such an iteration has errors.
C23_TopLevelReturn ==
    [][/\ (DeclarationStep /\ OutsideBraces(last.tokens, last.current)
             /\ Parser_peek(last) = "Return")
          => DeclarationFailed
       /\ (status' = "parsed" /\ last.current >= 1
             /\ \E n \in 0..(last.current - 1) :
                    /\ last.tokens[n + 1] = "Return"
                    /\ OutsideBraces(last.tokens, n)
                    /\ n > 0 => last.tokens[n] = "SemiColon")
          => last.errors # <<>>]_vars

\* C27: after every parse error, in a class, fun or var declaration or in a
\* statement, the parser records the error once, and parsing resumes
\* immediately after a consumed `;`, or at one of the keywords class, fun,
\* var, for, if, while, print, return, or at EOF.
C27_SynchronizeAfterError ==
    [][DeclarationFailed
       => /\ Len(last'.errors) = Len(last.errors) + 1
          /\ Len(last'.statements) = Len(last.statements)
          /\ \/ Parser_previous(last') = "SemiColon"
             \/ Parser_peek(last') \in {"Class", "Fun", "Var", "For", "If", "While",
                                        "Print", "Return", "EOF"}]_vars

\* the step is an application of Parser::assignment to a fresh parser
AssignmentStep == status = "parsing" /\ status' \in {"assignment", "assignment error"}

\* C28: when the parser sees `=` after a left-hand side, a variable becomes
\* an Assign and a property-get becomes a Set; for any other left-hand side
\* (here a number) a parse error is reported at the `=` token and the `=`
\* token is not consumed: the parser position stays at `=`.
C28_AssignmentTarget ==
    [][AssignmentStep
       => /\ (last.tokens[1] = "Identifier" /\ last.tokens[2] = "Equal"
                /\ status' = "assignment")
             => last'.statements[1].k = "Assign"
          /\ (Len(last.tokens) >= 5 /\ status' = "assignment"
                /\ SubSeq(last.tokens, 1, 4) = <<"Identifier", "Dot", "Identifier", "Equal">>)
             => last'.statements[1].k = "Set"
          /\ (last.tokens[1] = "Number" /\ last.tokens[2] = "Equal")
             => /\ status' = "assignment error"
                /\ last'.errors = <<[token |-> 2, msg |-> "Invalid assignment target."]>>
                /\ last'.current = 1
                /\ Parser_peek(last') = "Equal"]_vars

\* C29: Parser::parse terminates on every token sequence that ends with an
\* EOF token: every iteration of the loop of parse, whether it succeeds or
\* fails, advances the cursor by at least one token, and the cursor always
\* stays a valid index of the token list: no peek past the EOF token, no
\* previous with the cursor at 0.  The cursor is bounded by the length of the
\* token list, so the loop runs at most that many iterations.
C29_ParseTerminates ==
    [][/\ DeclarationStep => last'.current > last.current
       /\ status' # "panic"
       /\ ~last'.panicked
       /\ last'.current < Len(last'.tokens)
       /\ last'.tokens = last.tokens]_vars

\* a failed iteration advanced the cursor by no more than the token that
\* synchronize skips, and a later iteration ended the parse at the EOF token
C29_Witness ==
    /\ status = "parsed"
    /\ last.tokens = <<"RightParen", "Identifier", "SemiColon", "EOF">>
    /\ last.current = 3
    /\ Len(last.errors) = 1
    /\ last.statements = <<>>

====
